---- MODULE Spec2Model ----
(***************************************************************************)
(* Model of the incremental caching, deduplication and batch-analysis      *)
(* pipeline of chatwork-knowledge-extractor:                               *)
(*   - MessageCacheManager  (src/src/cache/messages.ts)                     *)
(*   - SpeakerMapManager    (src/src/cache/speakerMap.ts)                   *)
(*   - ChatworkClient       (src/unnamed/part_009)                          *)
(*   - filterMessages       (src/unnamed/part_010)                          *)
(*   - ClaudeAnalyzer       (src/src/claude/analyzer.ts)                    *)
(*   - main                 (src/unnamed/part_013)                          *)
(*                                                                         *)
(* Strings are modelled as sequences of one-character strings, message ids *)
(* as sequences of decimal digits, files as a value or NoFile.  The model   *)
(* alphabet is ASCII: "." stands for the Japanese full stop.               *)
(***************************************************************************)
EXTENDS Integers, Sequences, FiniteSets, TLC

VARIABLES
  remote,        \* the messages of the room at the chat service
  msgFile,       \* cache/room_<id>.json
  analysisFile,  \* cache/analysis_<id>.json
  speakerFile,   \* cache/speakers_<id>.json
  run,           \* the run of main() in progress: position and locals
  an,            \* the call of ClaudeAnalyzer.analyze in progress
  hist           \* history of the manager calls made so far

vars == <<remote, msgFile, analysisFile, speakerFile, run, an, hist>>

(***************************************************************************)
(* Bounds of the model                                                     *)
(***************************************************************************)
MaxRuns == 2          \* pipeline runs explored by Spec
MaxPolls == 4         \* polls of one batch job explored by SpecAnalyze
MaxBatchMsgs == 2     \* messages of a batch call explored by SpecAnalyze
MaxRealtimeMsgs == 7  \* messages of a realtime call explored by SpecAnalyze
MaxMergeLen == 2      \* length of the lists handed to mergeMessages by SpecMessageOps
MaxArgLen == 2        \* length of the argument lists drawn by the store specs
MaxBodyLen == 4       \* length of the bodies enumerated by SpecFilter
MaxTruncateLen == 12  \* largest maxLength handed to truncateMessage by SpecFilter

(***************************************************************************)
(* Generic helpers                                                         *)
(***************************************************************************)
Range(s) == {s[i] : i \in 1..Len(s)}

Max2(a, b) == IF a >= b THEN a ELSE b

Min2(a, b) == IF a <= b THEN a ELSE b

SeqsUpTo(S, n) == UNION {[1..k -> S] : k \in 0..n}

\* [...new Set(list)]: first occurrences, in insertion order
RECURSIVE UniqueSeq(_)
UniqueSeq(s) ==
  IF s = <<>> THEN <<>>
  ELSE LET init == UniqueSeq(SubSeq(s, 1, Len(s) - 1))
           last == s[Len(s)]
       IN IF last \in Range(init) THEN init ELSE Append(init, last)

\* insertion of the pair x = <<key, value>> into a sequence of pairs sorted
\* by descending key, after every pair whose key is >= the key of x
RECURSIVE InsertDesc(_, _)
InsertDesc(x, s) ==
  IF s = <<>> THEN <<x>>
  ELSE IF Head(s)[1] >= x[1] THEN <<Head(s)>> \o InsertDesc(x, Tail(s))
       ELSE <<x>> \o s

RECURSIVE SortPairsDesc(_)
SortPairsDesc(s) ==
  IF s = <<>> THEN <<>>
  ELSE InsertDesc(s[Len(s)], SortPairsDesc(SubSeq(s, 1, Len(s) - 1)))

\* Array.prototype.sort((a, b) => keys(b) - keys(a)) on the array s, where
\* keys[i] is the sort key of s[i]; the sort is stable
SortDesc(s, keys) ==
  LET sorted == SortPairsDesc([i \in 1..Len(s) |-> <<keys[i], s[i]>>])
  IN [i \in 1..Len(s) |-> sorted[i][2]]

(***************************************************************************)
(* Messages                                                                *)
(***************************************************************************)
\* parseInt(message_id): the decimal value of a digit string as a Number,
\* an IEEE 754 double.  A value below 2^53 is exact; a value from 2^53 =
\* 9007199254740992 up to 2^54 is rounded to the nearest even integer, a
\* tie to the multiple of 4.  The ids of the model have at most 9 digits,
\* or 16 digits and a value from 2^53 to 2^53 + 10^8.  The double of a
\* 16-digit id is written 10^9 + (double - 2^53), computed on the leading
\* and the last eight digits: the order and the equality of the doubles
\* are kept, which is all that the sign of a difference depends on.
parseInt(digits) ==
  LET RECURSIVE Decimal(_)
      Decimal(ds) ==
        IF ds = <<>> THEN 0
        ELSE 10 * Decimal(SubSeq(ds, 1, Len(ds) - 1)) + ds[Len(ds)]
      hi == Decimal(SubSeq(digits, 1, Len(digits) - 8))
      lo == Decimal(SubSeq(digits, Len(digits) - 7, Len(digits)))
      above == (hi - 90071992) * 100000000 + (lo - 54740992)
      rounded == CASE above % 4 = 1 -> above - 1
                   [] above % 4 = 3 -> above + 1
                   [] OTHER -> above
  IN IF Len(digits) <= 9 THEN Decimal(digits) ELSE 1000000000 + rounded

\* The room at the chat service: ChatworkMessage values (message_id,
\* account, body, send_time).  Two messages share a send_time; one body is
\* a short acknowledgement, one is longer than the filter's maxLength.
M8 == [message_id |-> <<8>>, account_id |-> 1, name |-> "alice", send_time |-> 1,
       body |-> <<"a", "a", "a", "a">>]

M9 == [message_id |-> <<9>>, account_id |-> 2, name |-> "bob", send_time |-> 2,
       body |-> <<"O", "K", "!">>]

M10 == [message_id |-> <<1, 0>>, account_id |-> 1, name |-> "alice", send_time |-> 2,
        body |-> <<"a", "a", "a", "a", "a", "a", "a", ".", "a", "a", "a">>]

\* two messages with the ids 9007199254740992 and 9007199254740993, of the
\* size the ids of the chat service have
MBig == [message_id |-> <<9, 0, 0, 7, 1, 9, 9, 2, 5, 4, 7, 4, 0, 9, 9, 2>>,
         account_id |-> 1, name |-> "alice", send_time |-> 3,
         body |-> <<"a", "a", "a", "a">>]

MBigNext == [message_id |-> <<9, 0, 0, 7, 1, 9, 9, 2, 5, 4, 7, 4, 0, 9, 9, 3>>,
             account_id |-> 2, name |-> "bob", send_time |-> 4,
             body |-> <<"a", "a", "a", "a">>]

Corpus == {M8, M9, M10}

MessageIds == {m.message_id : m \in Corpus}

IdsOf(msgs) == {msgs[i].message_id : i \in 1..Len(msgs)}

NoDuplicateIds(msgs) ==
  \A i, j \in 1..Len(msgs) : msgs[i].message_id = msgs[j].message_id => i = j

\* new Date(send_time * 1000).toISOString(), kept as the millisecond value
\* the ISO string denotes
ToISODate(send_time) == send_time * 1000

\* null, as a message_id (lastMessageId of an empty cache)
NullId == <<>>

(***************************************************************************)
(* MessageCacheManager: the message cache file room_<id>.json              *)
(***************************************************************************)
\* a room without a message cache file; load() returns null for it.
\* corrupt: the file exists and its content is not a complete JSON text
\* (or cannot be read)
NoMessageCache ==
  [exists |-> FALSE, corrupt |-> FALSE, messages |-> <<>>,
   analyzedMessageIds |-> <<>>, lastMessageId |-> NullId]

\* a load without its catch: the exception reaches the caller
LoadCatchRethrowing(outcome, absent) == outcome

\* catch (e) { this.logger.error(...); return null; }
LoadCatch(outcome, absent) ==
  IF outcome.threw THEN [threw |-> FALSE, value |-> absent] ELSE outcome

\* a load as a whole: null without a file, else the parsed content, with
\* an exception caught; ReadAndParse: readFile and JSON.parse, the body of
\* the try block, gives the value or the exception thrown
LoadOutcome(file, absent) ==
  LET ReadAndParse == [threw |-> file.corrupt,
                       value |-> IF file.corrupt THEN absent ELSE file]
  IN IF ~file.exists THEN [threw |-> FALSE, value |-> absent]
     ELSE LoadCatch(ReadAndParse, absent)

\* load(roomId): the parsed file, or null (NoMessageCache)
load(file) == LoadOutcome(file, NoMessageCache).value

\* the keys of (a, b) => parseInt(b.message_id) - parseInt(a.message_id)
MessageIdKeys(msgs) == [i \in 1..Len(msgs) |-> parseInt(msgs[i].message_id)]

\* the keys of (a, b) => b.send_time - a.send_time
SendTimeKeys(msgs) == [i \in 1..Len(msgs) |-> msgs[i].send_time]

\* save() without the union with the analyzed ids already persisted
saveReplacingAnalyzedIds(file, messages, analyzedMessageIds) ==
  LET sortedMessages == SortDesc(messages, MessageIdKeys(messages))
  IN [exists |-> TRUE, corrupt |-> FALSE,
      messages |-> sortedMessages,
      analyzedMessageIds |-> UniqueSeq(analyzedMessageIds),
      lastMessageId |-> IF Len(sortedMessages) > 0
                        THEN sortedMessages[1].message_id ELSE NullId]

\* save(roomId, messages, analyzedMessageIds?): the file it writes
save(file, messages, analyzedMessageIds) ==
  LET existingCache == load(file)
      existingAnalyzedIds == existingCache.analyzedMessageIds
      allAnalyzedIds == UniqueSeq(existingAnalyzedIds \o analyzedMessageIds)
      sortedMessages == SortDesc(messages, MessageIdKeys(messages))
  IN [exists |-> TRUE, corrupt |-> FALSE,
      messages |-> sortedMessages,
      analyzedMessageIds |-> allAnalyzedIds,
      lastMessageId |-> IF Len(sortedMessages) > 0
                        THEN sortedMessages[1].message_id ELSE NullId]

\* the selection without the set difference
getUnanalyzedMessagesUnfiltered(messages, analyzedIds) == messages

\* the selection with the test inverted
getUnanalyzedMessagesInverted(messages, analyzedIds) ==
  LET analyzedSet == Range(analyzedIds)
      Analyzed(msg) == msg.message_id \in analyzedSet
  IN SelectSeq(messages, Analyzed)

\* getUnanalyzedMessages(messages, analyzedIds):
\* messages.filter(m => !analyzedIds.has(m.message_id))
getUnanalyzedMessages(messages, analyzedIds) ==
  LET analyzedSet == Range(analyzedIds)
      NotAnalyzed(msg) == msg.message_id \notin analyzedSet
  IN SelectSeq(messages, NotAnalyzed)

\* markAsAnalyzed without the early return: a cache is written anyway
markAsAnalyzedCreatingCache(file, messageIds) ==
  LET cache == load(file)
  IN [cache EXCEPT !.exists = TRUE, !.corrupt = FALSE,
                   !.analyzedMessageIds = UniqueSeq(@ \o messageIds)]

\* markAsAnalyzed(roomId, messageIds): the file afterwards
markAsAnalyzed(file, messageIds) ==
  LET cache == load(file)
  IN IF ~cache.exists THEN file
     ELSE [cache EXCEPT !.analyzedMessageIds = UniqueSeq(@ \o messageIds)]

\* mergeMessages() without the check against the existing ids
mergeMessagesKeepingDuplicates(existing, newMessages) ==
  SortDesc(existing \o newMessages, SendTimeKeys(existing \o newMessages))

\* the merge without the final sort
mergeMessagesUnsorted(existing, newMessages) ==
  LET existingIds == IdsOf(existing)
      IsNew(msg) == msg.message_id \notin existingIds
  IN existing \o SelectSeq(newMessages, IsNew)

\* mergeMessages(existing, newMessages)
mergeMessages(existing, newMessages) ==
  LET existingIds == IdsOf(existing)
      IsNew(msg) == msg.message_id \notin existingIds
      merged == existing \o SelectSeq(newMessages, IsNew)
  IN SortDesc(merged, SendTimeKeys(merged))

\* getAnalyzedIds(roomId)
getAnalyzedIds(file) == load(file).analyzedMessageIds

(***************************************************************************)
(* MessageCacheManager: the analysis cache file analysis_<id>.json         *)
(***************************************************************************)
NoAnalysisCache == [exists |-> FALSE, corrupt |-> FALSE, model |-> "", results |-> <<>>]

\* loadAnalysisResults(roomId): cache?.results || [], cache being what
\* loadAnalysisCache(roomId) returns
loadAnalysisResults(file) == LoadOutcome(file, NoAnalysisCache).value.results

\* resultMap.set(item.message_id, item) for each item, on a Map kept as
\* the sequence of its values in insertion order: an existing key keeps
\* its place and takes the new value
RECURSIVE MapSetAll(_, _)
MapSetAll(values, items) ==
  LET MapSet(item) ==
        IF \E i \in 1..Len(values) : values[i].message_id = item.message_id
        THEN [i \in 1..Len(values) |->
                IF values[i].message_id = item.message_id THEN item ELSE values[i]]
        ELSE Append(values, item)
  IN IF items = <<>> THEN values
     ELSE MapSetAll(MapSet(Head(items)), Tail(items))

\* mergeAnalysisResults() with the precedence reversed: existing wins
mergeAnalysisResultsExistingWins(existing, newResults) ==
  MapSetAll(MapSetAll(<<>>, newResults), existing)

\* mergeAnalysisResults() that keeps only the new results
mergeAnalysisResultsDroppingExisting(existing, newResults) ==
  MapSetAll(<<>>, newResults)

\* mergeAnalysisResults(existing, newResults): Array.from(resultMap.values())
mergeAnalysisResults(existing, newResults) ==
  MapSetAll(MapSetAll(<<>>, existing), newResults)

\* saveAnalysisResults(roomId, results, model): the file it writes
saveAnalysisResults(file, results, model) ==
  LET existing == loadAnalysisResults(file)
      merged == mergeAnalysisResults(existing, results)
  IN [exists |-> TRUE, corrupt |-> FALSE, model |-> model, results |-> merged]

ResultIds(file) == IdsOf(loadAnalysisResults(file))

AnalyzedIdSet(file) == Range(getAnalyzedIds(file))

(***************************************************************************)
(* SpeakerMapManager and TeamProfileManager                                *)
(***************************************************************************)
NoSpeakerMap == [exists |-> FALSE, corrupt |-> FALSE, speakers |-> <<>>]

\* SpeakerMapManager.load(roomId)
loadSpeakerMap(file) == LoadOutcome(file, NoSpeakerMap).value

\* resolved?.role with the roleResolver main() builds: undefined when the
\* team has no profiles (TeamProfileManager.hasProfiles() is false);
\* resolveRole: TeamProfileManager.resolveRole(accountId).role, that is
\* profile?.role ?? 'member'
ResolvedRoleOf(profiles, accountId) ==
  LET resolveRole == IF accountId \in DOMAIN profiles THEN profiles[accountId]
                     ELSE "member"
  IN IF DOMAIN profiles # {} THEN resolveRole ELSE "undefined"

\* a save that writes the speakers of this call only
saveSpeakerMapReplacing(file, messages, profiles) ==
  [exists |-> TRUE, corrupt |-> FALSE,
   speakers |-> [id \in IdsOf(messages) |->
                   LET msg == CHOOSE m \in Range(messages) : m.message_id = id
                   IN [account_id |-> msg.account_id, speaker_name |-> msg.name,
                       speaker_role |-> ResolvedRoleOf(profiles, msg.account_id)]]]

\* SpeakerMapManager.save(roomId, messages, roleResolver): the file it
\* writes; speakers maps message_id to SpeakerInfo
saveSpeakerMap(file, messages, profiles) ==
  LET existing == loadSpeakerMap(file)
      newIds == IdsOf(messages)
      \* a later message with the same id overwrites an earlier one
      LastOf(id) == messages[CHOOSE i \in 1..Len(messages) :
                       /\ messages[i].message_id = id
                       /\ \A j \in (i + 1)..Len(messages) : messages[j].message_id # id]
      newSpeakers == [id \in newIds |->
                        [account_id |-> LastOf(id).account_id,
                         speaker_name |-> LastOf(id).name,
                         speaker_role |-> ResolvedRoleOf(profiles, LastOf(id).account_id)]]
      merged == [id \in DOMAIN existing.speakers \cup newIds |->
                   IF id \in newIds THEN newSpeakers[id] ELSE existing.speakers[id]]
  IN [exists |-> TRUE, corrupt |-> FALSE, speakers |-> merged]

\* a formatter that writes the anonymized output without the speaker map
formatAnonymizedWithoutMap(anonymize, file) ==
  LET speakerMap == loadSpeakerMap(file)
  IN IF ~anonymize /\ ~speakerMap.exists
     THEN [threw |-> TRUE, written |-> FALSE]
     ELSE [threw |-> FALSE, written |-> TRUE]

\* MarkdownFormatter.format and JSONFormatter.format: anonymizeWithMessageId
\* when options.anonymize, applySpeakerNames otherwise; each loads the
\* speaker map first and throws when load returns null; writeFile comes
\* after it
format(anonymize, file) ==
  LET speakerMap == loadSpeakerMap(file)
      anonymizeWithMessageId == speakerMap.exists
      applySpeakerNames == speakerMap.exists
      gotItems == IF anonymize THEN anonymizeWithMessageId ELSE applySpeakerNames
  IN IF ~gotItems
     THEN [threw |-> TRUE, written |-> FALSE]
     ELSE [threw |-> FALSE, written |-> TRUE]

(***************************************************************************)
(* Filter stage: shouldSkipMessage, truncateMessage, filterMessages        *)
(***************************************************************************)
\* String.prototype.trim: the text from its first to its last character
\* that is not white space
trim(str) ==
  LET inked == {i \in 1..Len(str) : str[i] \notin {" ", "\n"}}
  IN IF inked = {} THEN <<>>
     ELSE SubSeq(str, CHOOSE i \in inked : \A j \in inked : i <= j,
                      CHOOSE i \in inked : \A j \in inked : i >= j)

\* String.prototype.substring(0, end): end is clamped to 0..length
substring0(str, end) == SubSeq(str, 1, Max2(0, Min2(end, Len(str))))

\* String.prototype.lastIndexOf(ch), 0-based, -1 when absent
lastIndexOf(str, ch) ==
  IF \E i \in 1..Len(str) : str[i] = ch
  THEN (CHOOSE i \in 1..Len(str) :
          str[i] = ch /\ \A j \in (i + 1)..Len(str) : str[j] # ch) - 1
  ELSE -1

\* The regular expressions of the configuration, on the model alphabet:
\*   kind "all":    ^[chars]{min,}$   (a character class repeated)
\*   kind "prefix": ^word             (word[k] is the set of characters the
\*                                     case-insensitive k-th letter matches)
\*   kind "invalid": a pattern new RegExp() rejects
\* RegExpTest: new RegExp(pattern, 'i').test(text); an invalid pattern
\* throws, the caller's catch logs a warning and goes on: it matches nothing
MatchesAny(patterns, text) ==
  LET RegExpTest(pattern) ==
        CASE pattern.kind = "all" ->
               /\ Len(text) >= pattern.min
               /\ \A i \in 1..Len(text) : text[i] \in pattern.chars
          [] pattern.kind = "prefix" ->
               /\ Len(text) >= Len(pattern.word)
               /\ \A i \in 1..Len(pattern.word) : text[i] \in pattern.word[i]
          [] OTHER -> FALSE
  IN \E i \in 1..Len(patterns) : RegExpTest(patterns[i])

\* DEFAULT_FILTER_CONFIG, its pattern lists restricted to the patterns that
\* can match a text over the model alphabet: '^OK' and, its two characters
\* written "ryo" and "kai", the first boilerplate pattern, whose optional
\* group has no effect on a test without an end anchor
DEFAULT_FILTER_CONFIG ==
  LET AllOf(chars, min) == [kind |-> "all", chars |-> chars, min |-> min, word |-> <<>>]
      PrefixOf(word) == [kind |-> "prefix", chars |-> {}, min |-> 0, word |-> word]
  IN
  [minLength |-> 10,
   maxLength |-> 300,
   boilerplateThreshold |-> 50,
   noisePatterns |-> <<AllOf({"!", "?", ".", ","}, 1),
                       AllOf({"w", "W"}, 1),
                       AllOf({"w", "W"}, 2)>>,
   boilerplatePatterns |-> <<PrefixOf(<<{"ryo"}, {"kai"}>>),
                             PrefixOf(<<{"O", "o"}, {"K", "k"}>>)>>]

\* filterConfig of main(): FILTER_MIN_LENGTH, FILTER_MAX_LENGTH and
\* FILTER_BOILERPLATE_THRESHOLD set in the environment, spread over the
\* defaults by { ...DEFAULT_FILTER_CONFIG, ...config }
EnvFilterConfig ==
  [DEFAULT_FILTER_CONFIG EXCEPT !.minLength = 3, !.maxLength = 10,
                                !.boilerplateThreshold = 5]

\* shouldSkipMessage without the test of the boilerplate threshold
shouldSkipMessageAtAnyLength(body, cfg) ==
  LET trimmed == trim(body)
  IN IF Len(trimmed) < cfg.minLength
     THEN [skip |-> TRUE, reason |-> "too_short"]
     ELSE IF MatchesAny(cfg.noisePatterns, trimmed)
     THEN [skip |-> TRUE, reason |-> "noise_pattern"]
     ELSE IF MatchesAny(cfg.boilerplatePatterns, trimmed)
     THEN [skip |-> TRUE, reason |-> "boilerplate_pattern"]
     ELSE [skip |-> FALSE, reason |-> ""]

\* shouldSkipMessage with the comparison of the minimum length inverted
shouldSkipMessageAboveMinLength(body, cfg) ==
  LET trimmed == trim(body)
  IN IF Len(trimmed) > cfg.minLength
     THEN [skip |-> TRUE, reason |-> "too_short"]
     ELSE IF MatchesAny(cfg.noisePatterns, trimmed)
     THEN [skip |-> TRUE, reason |-> "noise_pattern"]
     ELSE IF /\ Len(trimmed) < cfg.boilerplateThreshold
             /\ MatchesAny(cfg.boilerplatePatterns, trimmed)
     THEN [skip |-> TRUE, reason |-> "boilerplate_pattern"]
     ELSE [skip |-> FALSE, reason |-> ""]

\* shouldSkipMessage(body, config); reason without its interpolated detail
shouldSkipMessage(body, cfg) ==
  LET trimmed == trim(body)
  IN IF Len(trimmed) < cfg.minLength
     THEN [skip |-> TRUE, reason |-> "too_short"]
     ELSE IF MatchesAny(cfg.noisePatterns, trimmed)
     THEN [skip |-> TRUE, reason |-> "noise_pattern"]
     ELSE IF /\ Len(trimmed) < cfg.boilerplateThreshold
             /\ MatchesAny(cfg.boilerplatePatterns, trimmed)
     THEN [skip |-> TRUE, reason |-> "boilerplate_pattern"]
     ELSE [skip |-> FALSE, reason |-> ""]

\* the truncation suffix, seven characters long
TruncationSuffix == <<"~", "(", "o", "m", "i", "t", ")">>

\* truncateMessage(body, maxLength).  lastPeriod > targetLength * 0.7: the
\* product is formed in floating point, which agrees with
\* 7 * targetLength / 10 on the side of every integer for the target
\* lengths between -90 and 90 the model reaches
truncateMessage(body, maxLength) ==
  IF Len(body) <= maxLength THEN [body |-> body, truncated |-> FALSE]
  ELSE LET targetLength == maxLength - Len(TruncationSuffix)
           truncated == substring0(body, targetLength)
           lastPeriod == Max2(lastIndexOf(truncated, "."),
                              Max2(lastIndexOf(truncated, "\n"),
                                   lastIndexOf(truncated, ",")))
           cutPoint == IF 10 * lastPeriod > 7 * targetLength
                       THEN lastPeriod + 1 ELSE targetLength
       IN [body |-> trim(substring0(body, cutPoint)) \o TruncationSuffix,
           truncated |-> TRUE]

\* the loop of filterMessages with msg.body = body; filtered.push(msg) in
\* place of the copy
RECURSIVE filterLoopInPlace(_, _, _)
filterLoopInPlace(objects, refs, cfg) ==
  IF refs = <<>> THEN [objects |-> objects, filtered |-> <<>>]
  ELSE LET msg == objects[Head(refs)]
           t == truncateMessage(msg.body, cfg.maxLength)
       IN IF shouldSkipMessage(msg.body, cfg).skip
          THEN filterLoopInPlace(objects, Tail(refs), cfg)
          ELSE LET changed == IF t.truncated
                              THEN [objects EXCEPT ![Head(refs)].body = t.body]
                              ELSE objects
                   rest == filterLoopInPlace(changed, Tail(refs), cfg)
               IN [rest EXCEPT !.filtered = <<Head(refs)>> \o @]

\* the loop of filterMessages over the objects of the heap: objects[r] is
\* the object the reference r points to, refs is the array messages, and
\* { ...msg, body } is a new object at the end of the heap
RECURSIVE filterLoop(_, _, _)
filterLoop(objects, refs, cfg) ==
  IF refs = <<>> THEN [objects |-> objects, filtered |-> <<>>]
  ELSE LET msg == objects[Head(refs)]
           t == truncateMessage(msg.body, cfg.maxLength)
       IN IF shouldSkipMessage(msg.body, cfg).skip
          THEN filterLoop(objects, Tail(refs), cfg)
          ELSE IF t.truncated
          THEN LET copied == Append(objects, [msg EXCEPT !.body = t.body])
                   rest == filterLoop(copied, Tail(refs), cfg)
               IN [rest EXCEPT !.filtered = <<Len(copied)>> \o @]
          ELSE LET rest == filterLoop(objects, Tail(refs), cfg)
               IN [rest EXCEPT !.filtered = <<Head(refs)>> \o @]

\* filterMessages(messages, config).filtered, by value
filterMessages(messages, cfg) ==
  LET out == filterLoop(messages, [i \in 1..Len(messages) |-> i], cfg)
  IN [k \in 1..Len(out.filtered) |-> out.objects[out.filtered[k]]]

(***************************************************************************)
(* ClaudeAnalyzer: parsing of one classification response                  *)
(***************************************************************************)
\* A response text is a sequence of tokens: a fence marker ```json, a
\* fence marker ```, one JSON text, or prose.  A JSON text is described by
\* the value JSON.parse gives for it: an object (items holds it), an array
\* (items holds its elements), null, or a malformed text.  A JSON text with
\* a fenced snippet inside one of its strings is the token json_start with
\* the value of the whole text, the tokens of the snippet, and json_end.
NoJson == [shape |-> "none", items |-> <<>>]

FenceJson == [t |-> "fence_json", v |-> NoJson]

Fence == [t |-> "fence", v |-> NoJson]

Prose == [t |-> "prose", v |-> NoJson]

JsonText(shape, items) == [t |-> "json", v |-> [shape |-> shape, items |-> items]]

\* an element of the parsed payload; "" is an absent (falsy) field;
\* message_id and date are the model's own echo of those fields
Item(category, versatility, title, echoId) ==
  [isNull |-> FALSE, category |-> category, versatility |-> versatility,
   title |-> title, message_id |-> echoId, date |-> 0]

IsFence(tok) == tok.t \in {"fence", "fence_json"}

NoMatch == [matched |-> FALSE, capture |-> <<>>]

\* jsonText.match(/```json\s*([\s\S]*?)```/): the leftmost ```json that
\* has a fence after it, up to the nearest such fence
MatchLabeledFence(text) ==
  LET starts == {i \in 1..Len(text) :
                   /\ text[i].t = "fence_json"
                   /\ \E j \in (i + 1)..Len(text) : IsFence(text[j])}
  IN IF starts = {} THEN NoMatch
     ELSE LET i == CHOOSE x \in starts : \A y \in starts : x <= y
              j == CHOOSE x \in (i + 1)..Len(text) :
                     IsFence(text[x]) /\ \A y \in (i + 1)..(x - 1) : ~IsFence(text[y])
          IN [matched |-> TRUE, capture |-> SubSeq(text, i + 1, j - 1)]

\* jsonText.match(/```\s*([\s\S]*?)```/): the leftmost fence of either kind
\* that has a fence after it; after a ```json marker the capture starts
\* with the word json
MatchAnyFence(text) ==
  LET starts == {i \in 1..Len(text) :
                   /\ IsFence(text[i])
                   /\ \E j \in (i + 1)..Len(text) : IsFence(text[j])}
  IN IF starts = {} THEN NoMatch
     ELSE LET i == CHOOSE x \in starts : \A y \in starts : x <= y
              j == CHOOSE x \in (i + 1)..Len(text) :
                     IsFence(text[x]) /\ \A y \in (i + 1)..(x - 1) : ~IsFence(text[y])
              label == IF text[i].t = "fence_json" THEN <<Prose>> ELSE <<>>
          IN [matched |-> TRUE, capture |-> label \o SubSeq(text, i + 1, j - 1)]

\* .replace(/^```(json)?/gm, '').replace(/```$/gm, ''): a fence marker
\* stands on a line of its own, so every remaining marker is removed
StripFences(text) ==
  LET NotFence(tok) == ~IsFence(tok)
  IN SelectSeq(text, NotFence)

\* the text handed to JSON.parse: labeled fence first, then any fence,
\* otherwise the whole text; then the stray markers are stripped
ExtractJsonText(text) ==
  LET labeled == MatchLabeledFence(text)
      any == MatchAnyFence(text)
      jsonText == IF labeled.matched THEN labeled.capture
                  ELSE IF any.matched THEN any.capture
                  ELSE text
  IN StripFences(jsonText)

\* JSON.parse(jsonText): the value, or the SyntaxError it throws
JSONparse(jsonText) ==
  IF jsonText = <<>>
  THEN [ok |-> FALSE, error |-> "Unexpected end of JSON input", value |-> NoJson]
  ELSE IF /\ Len(jsonText) >= 2
          /\ jsonText[1].t = "json_start"
          /\ jsonText[Len(jsonText)].t = "json_end"
          /\ \A i \in 2..(Len(jsonText) - 1) : jsonText[i].t \notin {"json_start", "json_end"}
  THEN [ok |-> TRUE, error |-> "", value |-> jsonText[1].v]
  ELSE IF Len(jsonText) = 1 /\ jsonText[1].t = "json"
  THEN IF jsonText[1].v.shape \in {"object", "array", "null"}
       THEN [ok |-> TRUE, error |-> "", value |-> jsonText[1].v]
       ELSE IF jsonText[1].v.shape = "truncated"
       THEN [ok |-> FALSE, error |-> "Unterminated string", value |-> NoJson]
       ELSE [ok |-> FALSE, error |-> "Unexpected token", value |-> NoJson]
  ELSE [ok |-> FALSE, error |-> "Unexpected token", value |-> NoJson]

\* Array.isArray(parsed) ? parsed : [parsed]
ItemsOf(value) ==
  LET NullItem == [isNull |-> TRUE, category |-> "", versatility |-> "", title |-> "",
                   message_id |-> NullId, date |-> 0]
  IN IF value.shape = "null" THEN <<NullItem>> ELSE value.items

\* !item.versatility || !item.category
\* the validation without the test of category
MissingVersatility(item) == item.versatility = ""

\* !item.versatility || !item.category
MissingRequiredField(item) == item.versatility = "" \/ item.category = ""

\* the spread after the metadata: the model's echo wins
EnrichEchoWins(item, messageId, date) ==
  [message_id |-> item.message_id, date |-> item.date, category |-> item.category,
   versatility |-> item.versatility, title |-> item.title]

\* { ...item, message_id: messageId, date: date }
Enrich(item, messageId, date) ==
  [message_id |-> messageId, date |-> date, category |-> item.category,
   versatility |-> item.versatility, title |-> item.title]

(***************************************************************************)
(* ClaudeAnalyzer.analyzeBatch: the loop over the results of the job       *)
(***************************************************************************)
\* custom_id: `msg_${msg.message_id}`
CustomId(messageId) == [prefix |-> "msg_", id |-> messageId]

\* a result of the job: result.custom_id, result.result.type and, for a
\* succeeded result, the type and text of message.content[0]
BatchResult(customId, response) ==
  [custom_id |-> customId, type |-> response.type,
   contentType |-> response.contentType, text |-> response.text]

\* messageDateMap.get(custom_id): the last message with the id sets it
DateOfId(messages, id) ==
  ToISODate(messages[CHOOSE i \in 1..Len(messages) :
                       /\ messages[i].message_id = id
                       /\ \A j \in (i + 1)..Len(messages) : messages[j].message_id # id].send_time)

\* the loop over the items of one result; acc.threw: an item raised a
\* TypeError (a null element), which ends the loop
RECURSIVE BatchItems(_, _, _, _)
BatchItems(items, messageId, date, acc) ==
  IF items = <<>> THEN acc
  ELSE LET item == Head(items)
       IN IF item.isNull THEN [acc EXCEPT !.threw = TRUE]
          ELSE IF MissingRequiredField(item)
          THEN BatchItems(Tail(items), messageId, date,
                          [acc EXCEPT !.parseErrorCount = @ + 1,
                                      !.skipped = Append(@, messageId)])
          ELSE BatchItems(Tail(items), messageId, date,
                          [acc EXCEPT !.analyzed = Append(@, Enrich(item, messageId, date))])

\* the try block for a succeeded text result; KnownCustomId:
\* messageIdMap.has(custom_id)
BatchTry(acc, result, messages) ==
  IF LET KnownCustomId == /\ result.custom_id.prefix = "msg_"
                          /\ result.custom_id.id \in IdsOf(messages)
     IN ~KnownCustomId
  THEN [acc EXCEPT !.parseErrorCount = @ + 1]
  ELSE LET parsed == JSONparse(ExtractJsonText(result.text))
       IN IF ~parsed.ok THEN [acc EXCEPT !.threw = TRUE]
          ELSE BatchItems(ItemsOf(parsed.value), result.custom_id.id,
                          DateOfId(messages, result.custom_id.id), acc)

\* skipped: the ids named by the warnings about objects without a
\* required field, one entry per warning
NoBatchProgress ==
  [analyzed |-> <<>>, parseErrorCount |-> 0, processedCount |-> 0, threw |-> FALSE,
   skipped |-> <<>>]

\* one iteration of for await (const result of results); content.type is
\* read before the try block, so a message without content blocks raises a
\* TypeError that no catch handles; BatchCatch:
\* catch (e) { parseErrorCount++; ... }
processBatchResult(acc, result, messages) ==
  LET counted == [acc EXCEPT !.processedCount = @ + 1]
      BatchCatch(tried) ==
        IF tried.threw THEN [tried EXCEPT !.parseErrorCount = @ + 1, !.threw = FALSE]
        ELSE tried
  IN IF result.type = "succeeded"
     THEN IF result.contentType = "none"
          THEN [counted EXCEPT !.threw = TRUE]
          ELSE IF result.contentType = "text"
          THEN BatchCatch(BatchTry(counted, result, messages))
          ELSE counted
     ELSE [counted EXCEPT !.parseErrorCount = @ + 1]

\* the whole loop; an exception that leaves an iteration ends it
RECURSIVE processBatchResults(_, _, _)
processBatchResults(acc, results, messages) ==
  IF results = <<>> \/ acc.threw THEN acc
  ELSE processBatchResults(processBatchResult(acc, Head(results), messages),
                           Tail(results), messages)

(***************************************************************************)
(* ClaudeAnalyzer.analyzeRealtime: one request, and the loop over groups   *)
(***************************************************************************)
CONCURRENCY == 5

Failure == [success |-> FALSE, data |-> <<>>, threw |-> FALSE, skipped |-> <<>>]

\* the validation loop of one response; a null element raises a TypeError
RECURSIVE RealtimeItems(_, _, _, _, _)
RealtimeItems(items, messageId, date, validItems, skipped) ==
  IF items = <<>>
  THEN IF validItems = <<>> THEN [Failure EXCEPT !.skipped = skipped]
       ELSE [success |-> TRUE, data |-> validItems, threw |-> FALSE,
             skipped |-> skipped]
  ELSE LET item == Head(items)
       IN IF item.isNull THEN [Failure EXCEPT !.threw = TRUE, !.skipped = skipped]
          ELSE IF MissingRequiredField(item)
          THEN RealtimeItems(Tail(items), messageId, date, validItems,
                             Append(skipped, messageId))
          ELSE RealtimeItems(Tail(items), messageId, date,
                             Append(validItems, Enrich(item, messageId, date)),
                             skipped)

\* the body of the try blocks of one request
RealtimeTry(msg, response) ==
  IF response.type # "succeeded" THEN [Failure EXCEPT !.threw = TRUE]
  ELSE IF response.contentType = "none" THEN [Failure EXCEPT !.threw = TRUE]
  ELSE IF response.contentType # "text" THEN Failure
  ELSE LET parsed == JSONparse(ExtractJsonText(response.text))
       IN IF ~parsed.ok THEN [Failure EXCEPT !.threw = TRUE]
          ELSE RealtimeItems(ItemsOf(parsed.value), msg.message_id,
                             ToISODate(msg.send_time), <<>>, <<>>)

\* the promise of one message of a group; catch (parseError) / catch (e):
\* return { success: false, ... }
realtimeRequest(msg, response) ==
  LET outcome == RealtimeTry(msg, response)
  IN IF outcome.threw THEN [Failure EXCEPT !.skipped = outcome.skipped] ELSE outcome

\* a collection that takes the results of a group from the last to the
\* first
RECURSIVE collectGroupReversed(_, _)
collectGroupReversed(acc, results) ==
  IF results = <<>> THEN acc
  ELSE LET r == results[Len(results)]
       IN collectGroupReversed(
            IF r.success
            THEN [acc EXCEPT !.analyzed = @ \o r.data, !.skipped = @ \o r.skipped]
            ELSE [acc EXCEPT !.parseErrorCount = @ + 1, !.skipped = @ \o r.skipped],
            SubSeq(results, 1, Len(results) - 1))

\* for (const result of results) after Promise.all of one group; the
\* warnings of the requests of the group enter the log here
RECURSIVE collectGroup(_, _)
collectGroup(acc, results) ==
  IF results = <<>> THEN acc
  ELSE LET r == Head(results)
       IN collectGroup(
            IF r.success
            THEN [acc EXCEPT !.analyzed = @ \o r.data, !.skipped = @ \o r.skipped]
            ELSE [acc EXCEPT !.parseErrorCount = @ + 1, !.skipped = @ \o r.skipped],
            Tail(results))

\* the loop over the groups messages.slice(i, i + CONCURRENCY), from the
\* group that starts at i (0-based);
\* responses[k] is the response to messages[k]
RECURSIVE realtimeGroups(_, _, _, _)
realtimeGroups(acc, messages, responses, i) ==
  IF i >= Len(messages) \/ acc.threw THEN acc
  ELSE LET hi == Min2(i + CONCURRENCY, Len(messages))
           results == [k \in 1..(hi - i) |->
                         realtimeRequest(messages[i + k], responses[i + k])]
           rejected == \E k \in 1..(hi - i) : results[k].threw
       IN IF rejected THEN [acc EXCEPT !.threw = TRUE]
          ELSE realtimeGroups(collectGroup(acc, results), messages, responses,
                              i + CONCURRENCY)

(***************************************************************************)
(* The managers called directly, with arbitrary arguments                  *)
(***************************************************************************)
\* main() before its first run: position, configuration and locals, and
\* what the run found persisted when it started
IdleRun ==
  [pc |-> "idle", n |-> 0, mode |-> "batch", maxMessages |-> 500, cutoff |-> 0,
   profiles |-> <<>>, isFirstRun |-> FALSE, fetched |-> <<>>, messages |-> <<>>,
   unanalyzed |-> <<>>, filtered |-> <<>>, analyzed |-> <<>>, usedModel |-> "",
   fatal |-> "", exitCode |-> 0, isReanalyze |-> FALSE, rendered |-> FALSE,
   startMessageIds |-> {}, startAnalyzedIds |-> {}, startResults |-> NoAnalysisCache,
   submitted |-> {}, failed |-> {}, prevFailed |-> {}]

\* no call of analyze in progress: position, mode and input, the state of
\* the batch job and of its polling loop, the accumulators of the result
\* loop, the requests of the current realtime group, and the answers the
\* classification API has given so far
IdleAn ==
  [pc |-> "idle", mode |-> "batch", messages |-> <<>>, raisedBy |-> "",
   status |-> "none", pollCount |-> 0, clock |-> 0,
   timeoutWarningShown |-> FALSE, warnings |-> 0, warnedAt |-> 0,
   pending |-> {}, progress |-> NoBatchProgress,
   i |-> 0, started |-> {}, inflight |-> {}, resolved |-> <<>>,
   answers |-> {}, analyzed |-> <<>>]

NoHistory ==
  [lastOp |-> "none", prevAnalyzedIds |-> {}, lastArgIds |-> {}, saves |-> <<>>]

\* AnalyzedMessage values a caller may hand to saveAnalysisResults
SampleRecords ==
  {[message_id |-> m.message_id, date |-> ToISODate(m.send_time),
    category |-> "knowhow", versatility |-> "high", title |-> t] :
      m \in {M8, M9}, t \in {"t1", "t2"}}

StoreInit ==
  /\ remote = {}
  /\ msgFile = NoMessageCache
  /\ analysisFile = NoAnalysisCache
  /\ speakerFile = NoSpeakerMap
  /\ run = IdleRun
  /\ an = IdleAn
  /\ hist = NoHistory

\* cacheManager.save(roomId, messages, analyzedMessageIds)
StoreSave ==
  \E messages \in {<<>>, <<M9>>, <<M8, M10>>, <<M10, M8, M9>>,
                   <<M9, MBigNext, MBig>>, <<MBig, MBigNext>>},
     ids \in SeqsUpTo(MessageIds, MaxArgLen) :
    /\ msgFile' = save(msgFile, messages, ids)
    /\ hist' = [hist EXCEPT !.lastOp = "save",
                            !.prevAnalyzedIds = AnalyzedIdSet(msgFile),
                            !.lastArgIds = Range(ids)]
    /\ UNCHANGED <<remote, analysisFile, speakerFile, run, an>>

\* cacheManager.markAsAnalyzed(roomId, messageIds)
StoreMarkAsAnalyzed ==
  \E ids \in SeqsUpTo(MessageIds, MaxArgLen) :
    /\ msgFile' = markAsAnalyzed(msgFile, ids)
    /\ hist' = [hist EXCEPT !.lastOp = "markAsAnalyzed",
                            !.prevAnalyzedIds = AnalyzedIdSet(msgFile),
                            !.lastArgIds = Range(ids)]
    /\ UNCHANGED <<remote, analysisFile, speakerFile, run, an>>

MessageStoreNext == StoreSave \/ StoreMarkAsAnalyzed

SpecMessageStore == StoreInit /\ [][MessageStoreNext]_vars

\* cacheManager.saveAnalysisResults(roomId, results, model)
StoreSaveAnalysisResults ==
  \E results \in SeqsUpTo(SampleRecords, MaxArgLen), model \in {"model-a", "model-b"} :
    /\ analysisFile' = saveAnalysisResults(analysisFile, results, model)
    /\ hist' = [hist EXCEPT !.lastOp = "saveAnalysisResults",
                            !.saves = IF @ = <<>> THEN <<results>>
                                      ELSE <<@[Len(@)], results>>]
    /\ UNCHANGED <<remote, msgFile, speakerFile, run, an>>

ResultStoreNext == StoreSaveAnalysisResults

SpecResultStore == StoreInit /\ [][ResultStoreNext]_vars

\* M8 after an edit of its body: same id, same send_time
M8Edited == [M8 EXCEPT !.body = <<"b", "b", "b", "b">>]

\* the messages the lists handed to mergeMessages are made of
MergeCorpus == Corpus \cup {M8Edited}

\* the arguments drawn for mergeMessages, and the last call of
\* mergeMessages or getUnanalyzedMessages: its arguments and its result
OpsInit ==
  /\ remote = {}
  /\ msgFile = NoMessageCache
  /\ analysisFile = NoAnalysisCache
  /\ speakerFile = NoSpeakerMap
  /\ run = IdleRun
  /\ an = IdleAn
  /\ \E existing \in SeqsUpTo(MergeCorpus, MaxMergeLen),
        incoming \in SeqsUpTo(MergeCorpus, MaxMergeLen) :
       hist = [lastOp |-> "none", existing |-> existing, incoming |-> incoming,
               merged |-> <<>>, other |-> <<>>, messages |-> <<>>,
               analyzedIds |-> <<>>, unanalyzed |-> <<>>]

\* mergeMessages(existing, newMessages)
OpsMerge ==
  /\ hist.lastOp = "none"
  /\ hist' = [hist EXCEPT !.lastOp = "merge",
                          !.merged = mergeMessages(hist.existing, hist.incoming)]
  /\ UNCHANGED <<remote, msgFile, analysisFile, speakerFile, run, an>>

\* the same newMessages merged once more into the result
OpsMergeAgain ==
  /\ hist.lastOp = "merge"
  /\ hist' = [hist EXCEPT !.lastOp = "again", !.existing = hist.merged,
                          !.merged = mergeMessages(hist.merged, hist.incoming)]
  /\ UNCHANGED <<remote, msgFile, analysisFile, speakerFile, run, an>>

\* the merge repeated on the same existing list with the same newMessages
\* in another order; other keeps the earlier result
OpsMergePermuted ==
  /\ hist.lastOp = "merge"
  /\ \E p \in Permutations(1..Len(hist.incoming)) :
       LET newMessages == [i \in 1..Len(hist.incoming) |-> hist.incoming[p[i]]]
       IN hist' = [hist EXCEPT !.lastOp = "permuted",
                            !.incoming = newMessages,
                            !.merged = mergeMessages(hist.existing, newMessages),
                            !.other = hist.merged]
  /\ UNCHANGED <<remote, msgFile, analysisFile, speakerFile, run, an>>

\* getUnanalyzedMessages(messages, analyzedIds) on the existing list or on
\* the merged one
OpsGetUnanalyzed ==
  /\ hist.lastOp \in {"none", "merge"}
  /\ \E analyzedIds \in SeqsUpTo(MessageIds, MaxArgLen) :
       LET messages == IF hist.lastOp = "none" THEN hist.existing ELSE hist.merged
       IN hist' = [hist EXCEPT !.lastOp = "getUnanalyzed",
                               !.messages = messages,
                               !.analyzedIds = analyzedIds,
                               !.unanalyzed = getUnanalyzedMessages(messages, analyzedIds)]
  /\ UNCHANGED <<remote, msgFile, analysisFile, speakerFile, run, an>>

MessageOpsNext == OpsMerge \/ OpsMergeAgain \/ OpsMergePermuted \/ OpsGetUnanalyzed

SpecMessageOps == OpsInit /\ [][MessageOpsNext]_vars

(***************************************************************************)
(* The filter stage called directly                                        *)
(***************************************************************************)
\* the acknowledgement of Scenario B, four characters long
Ryokai == <<"ryo", "kai", "de", "su">>

\* the configurations handed to the filter: the default one, and
\* FILTER_MIN_LENGTH and FILTER_BOILERPLATE_THRESHOLD set
FilterConfigs ==
  {[DEFAULT_FILTER_CONFIG EXCEPT !.minLength = m, !.boilerplateThreshold = b] :
     m \in {0, 2, 3, 10}, b \in {3, 50}}

\* a body and a configuration, and no call made yet: the results of
\* shouldSkipMessage under the configuration and under a greater
\* minLength, of truncateMessage, and of filterMessages on a heap;
\* FilterBodies: every text over a small alphabet, the acknowledgement
\* alone, at the head and in the middle of a message of 120 characters, and
\* texts of 13 characters with a full stop and a space
FilterInit ==
  /\ remote = {}
  /\ msgFile = NoMessageCache
  /\ analysisFile = NoAnalysisCache
  /\ speakerFile = NoSpeakerMap
  /\ run = IdleRun
  /\ an = IdleAn
  /\ \E body \in
          SeqsUpTo({"O", "K", "a", " ", "."}, MaxBodyLen)
            \cup {Ryokai, Ryokai \o [i \in 1..116 |-> "a"],
                  [i \in 1..58 |-> "a"] \o Ryokai \o [i \in 1..58 |-> "a"]}
            \cup {[i \in 1..13 |-> IF i = p THEN "." ELSE IF i = q THEN " " ELSE "a"] :
                    p \in 0..6, q \in 0..6},
        cfg \in FilterConfigs :
       hist = [lastOp |-> "none", body |-> body, cfg |-> cfg,
               result |-> [skip |-> FALSE, reason |-> ""],
               raisedTo |-> cfg.minLength,
               raised |-> [skip |-> FALSE, reason |-> ""],
               maxLength |-> 0,
               truncation |-> [body |-> <<>>, truncated |-> FALSE],
               objects |-> <<>>, refs |-> <<>>,
               out |-> [objects |-> <<>>, filtered |-> <<>>]]

\* shouldSkipMessage(body, config)
FilterShouldSkip ==
  /\ hist.lastOp = "none"
  /\ hist' = [hist EXCEPT !.lastOp = "skip",
                          !.result = shouldSkipMessage(hist.body, hist.cfg)]
  /\ UNCHANGED <<remote, msgFile, analysisFile, speakerFile, run, an>>

\* shouldSkipMessage(body, config) with a minLength at least as great
FilterShouldSkipRaised ==
  /\ hist.lastOp = "skip"
  /\ \E m \in {c.minLength : c \in FilterConfigs} :
       /\ m >= hist.cfg.minLength
       /\ hist' = [hist EXCEPT !.lastOp = "raised", !.raisedTo = m,
                               !.raised = shouldSkipMessage(
                                            hist.body, [hist.cfg EXCEPT !.minLength = m])]
  /\ UNCHANGED <<remote, msgFile, analysisFile, speakerFile, run, an>>

\* truncateMessage(body, maxLength)
FilterTruncate ==
  /\ hist.lastOp = "none"
  /\ \E maxLength \in 0..MaxTruncateLen :
       hist' = [hist EXCEPT !.lastOp = "truncate", !.maxLength = maxLength,
                               !.truncation = truncateMessage(hist.body, maxLength)]
  /\ UNCHANGED <<remote, msgFile, analysisFile, speakerFile, run, an>>

\* filterMessages(messages, config) on an array of references to two
\* objects, the configuration being the one of main()
FilterMessages ==
  /\ hist.lastOp = "none"
  /\ \E refs \in {<<1>>, <<1, 2>>, <<2, 1>>, <<1, 1>>} :
       LET objects == <<[M8 EXCEPT !.body = hist.body], M10>>
       IN hist' = [hist EXCEPT !.lastOp = "filter", !.objects = objects,
                               !.refs = refs,
                               !.out = filterLoop(objects, refs, EnvFilterConfig)]
  /\ UNCHANGED <<remote, msgFile, analysisFile, speakerFile, run, an>>

FilterNext ==
  FilterShouldSkip \/ FilterShouldSkipRaised \/ FilterTruncate \/ FilterMessages

SpecFilter == FilterInit /\ [][FilterNext]_vars

(***************************************************************************)
(* The cache files on disk: writeFile step by step, and a reader           *)
(***************************************************************************)
\* room_<id>.json, analysis_<id>.json, speakers_<id>.json
FileKinds == {"messages", "analysis", "speakers"}

FileOf(kind) ==
  CASE kind = "messages" -> msgFile
    [] kind = "analysis" -> analysisFile
    [] kind = "speakers" -> speakerFile

AbsentOf(kind) ==
  CASE kind = "messages" -> NoMessageCache
    [] kind = "analysis" -> NoAnalysisCache
    [] kind = "speakers" -> NoSpeakerMap

\* no write in progress and no load done: the writer, the file it writes,
\* the content before the write and the content being written; the last
\* load, whether a write of the same file was in progress and whether the
\* file was corrupt, and what the load returned
FilesInit ==
  /\ remote = {}
  /\ msgFile = NoMessageCache
  /\ analysisFile = NoAnalysisCache
  /\ speakerFile = NoSpeakerMap
  /\ run = IdleRun
  /\ an = IdleAn
  /\ hist = [lastOp |-> "none", writer |-> "idle", kind |-> "messages",
             old |-> NoMessageCache, writing |-> NoMessageCache,
             readKind |-> "messages", during |-> FALSE, wasCorrupt |-> FALSE,
             observed |-> [threw |-> FALSE, value |-> NoMessageCache],
             anonymize |-> FALSE, mapExisted |-> FALSE,
             rendered |-> [threw |-> FALSE, written |-> FALSE]]

\* the three files after the file of one kind got a new content
FilesWith(kind, content) ==
  /\ msgFile' = IF kind = "messages" THEN content ELSE msgFile
  /\ analysisFile' = IF kind = "analysis" THEN content ELSE analysisFile
  /\ speakerFile' = IF kind = "speakers" THEN content ELSE speakerFile

\* a manager has computed the content and writeFile opens the file: flag
\* 'w' truncates it, and until the whole JSON text is written the file
\* holds no complete JSON text
WriteBegin ==
  /\ hist.writer = "idle"
  /\ LET \* what a save or markAsAnalyzed of the managers hands to writeFile
         ContentsToWrite(kind) ==
           CASE kind = "messages" ->
                  {save(msgFile, messages, <<>>) : messages \in {<<M9>>, <<M8, M10>>}}
                    \cup {markAsAnalyzed(msgFile, ids) :
                            ids \in {x \in {<<M9.message_id>>} : load(msgFile).exists}}
             [] kind = "analysis" ->
                  {saveAnalysisResults(analysisFile, <<record>>, "model-a") :
                     record \in {r \in SampleRecords : r.message_id = M8.message_id}}
             [] kind = "speakers" ->
                  {saveSpeakerMap(speakerFile, <<M9>>, <<>>)}
     IN \E kind \in FileKinds : \E content \in ContentsToWrite(kind) :
       /\ FilesWith(kind, [AbsentOf(kind) EXCEPT !.exists = TRUE, !.corrupt = TRUE])
       /\ hist' = [hist EXCEPT !.lastOp = "begin", !.writer = "writing",
                               !.kind = kind, !.old = FileOf(kind),
                               !.writing = content]
  /\ UNCHANGED <<remote, run, an>>

\* writeFile has written the whole text and resolves
WriteEnd ==
  /\ hist.writer = "writing"
  /\ FilesWith(hist.kind, hist.writing)
  /\ hist' = [hist EXCEPT !.lastOp = "end", !.writer = "idle",
                          !.old = NoMessageCache, !.writing = NoMessageCache]
  /\ UNCHANGED <<remote, run, an>>

\* the process ends before writeFile has written the whole text
WriteCrash ==
  /\ hist.writer = "writing"
  /\ hist' = [hist EXCEPT !.lastOp = "crash", !.writer = "idle",
                          !.old = NoMessageCache, !.writing = NoMessageCache]
  /\ UNCHANGED <<remote, msgFile, analysisFile, speakerFile, run, an>>

\* another process loads a file of the room; observed: what the load
\* returned, with the exception a caller would see
ReaderLoad ==
  /\ \E kind \in FileKinds :
       hist' = [hist EXCEPT !.lastOp = "load", !.readKind = kind,
                            !.during = (hist.writer = "writing" /\ hist.kind = kind),
                            !.wasCorrupt = FileOf(kind).corrupt,
                            !.observed = LoadOutcome(FileOf(kind), AbsentOf(kind))]
  /\ UNCHANGED <<remote, msgFile, analysisFile, speakerFile, run, an>>

\* a formatter renders the knowledge items of the room, with or without
\* names; mapExisted: speakers_<id>.json was on disk; rendered: whether
\* format threw and whether it wrote the output file
Render ==
  /\ \E anonymize \in BOOLEAN :
       hist' = [hist EXCEPT !.lastOp = "render", !.anonymize = anonymize,
                            !.wasCorrupt = speakerFile.corrupt,
                            !.mapExisted = speakerFile.exists,
                            !.rendered = format(anonymize, speakerFile)]
  /\ UNCHANGED <<remote, msgFile, analysisFile, speakerFile, run, an>>

FilesNext == WriteBegin \/ WriteEnd \/ WriteCrash \/ ReaderLoad \/ Render

SpecFiles == FilesInit /\ [][FilesNext]_vars

(***************************************************************************)
(* The classification API, as the pipeline sees it                         *)
(***************************************************************************)
Response(type, contentType, text) ==
  [type |-> type, contentType |-> contentType, text |-> text]

\* the message_id the model echoes in its answer: not the one submitted
EchoId == <<7>>

ValidItem(title) == Item("knowhow", "high", title, EchoId)

\* raw JSON, one object
RespObject == Response("succeeded", "text", <<JsonText("object", <<ValidItem("t1")>>)>>)

\* an unlabeled fence with an array of two objects, one without category
RespOneOfTwoValid ==
  Response("succeeded", "text",
           <<Fence, JsonText("array", <<ValidItem("t2"), Item("", "high", "t1", EchoId)>>), Fence>>)

\* raw JSON, an array of two objects, both without category
RespNoneOfTwoValid ==
  Response("succeeded", "text",
           <<JsonText("array", <<Item("", "high", "t1", EchoId), Item("", "low", "t2", EchoId)>>)>>)

\* raw JSON, one valid object; one of its strings quotes a snippet in a
\* labeled fence, which is not JSON by itself
RespRawWithFence ==
  Response("succeeded", "text",
           <<[t |-> "json_start", v |-> [shape |-> "object", items |-> <<ValidItem("t3")>>]],
             FenceJson, Prose, Fence, [t |-> "json_end", v |-> NoJson]>>)

\* a response cut off by max_tokens
RespTruncated == Response("succeeded", "text", <<JsonText("truncated", <<>>)>>)

\* a message without content blocks: content[0] is undefined
RespEmpty == Response("succeeded", "none", <<>>)

\* an API-level error result of the batch job
RespErrored == Response("errored", "", <<>>)

\* client.messages.create rejects (transport or API error, realtime mode)
RespThrow == Response("throw", "", <<>>)

\* the answers the pipeline runs draw from; RespTwoRecords: a labeled fence
\* with an array of two valid objects
PipelineResponses(mode) ==
  LET RespTwoRecords ==
        Response("succeeded", "text",
                 <<FenceJson, JsonText("array", <<ValidItem("t1"), ValidItem("t2")>>),
                   Fence>>)
  IN {RespObject, RespTwoRecords, RespTruncated}
       \cup (IF mode = "batch" THEN {RespErrored, RespEmpty} ELSE {RespThrow})

(***************************************************************************)
(* ChatworkClient.getAllMessages                                           *)
(***************************************************************************)
\* the messages of S, oldest first, as the chat API returns them
RECURSIVE Ascending(_)
Ascending(S) ==
  IF S = {} THEN <<>>
  ELSE LET newest == CHOOSE m \in S :
                       \A o \in S : parseInt(o.message_id) <= parseInt(m.message_id)
       IN Append(Ascending(S \ {newest}), newest)

\* a getAllMessages that applies the limit before it saves the cache
getAllMessagesLimitingFirst(file, newMessages, maxMessages) ==
  LET existingCache == load(file)
      merged == IF ~existingCache.exists THEN newMessages
                ELSE mergeMessages(existingCache.messages, newMessages)
      limited == IF Len(merged) > maxMessages THEN SubSeq(merged, 1, maxMessages)
                 ELSE merged
  IN [file |-> save(file, limited, <<>>), messages |-> limited]

\* a getAllMessages that saves what the API returned without merging it
\* into the cached messages
getAllMessagesKeepingNewOnly(file, newMessages, maxMessages) ==
  [file |-> save(file, newMessages, <<>>),
   messages |-> IF Len(newMessages) > maxMessages
                THEN SubSeq(newMessages, 1, maxMessages) ELSE newMessages]

\* getAllMessages(roomId, maxMessages) once getMessages has returned
\* newMessages: the merge (none on a first run), cacheManager.save, then
\* allMessages.slice(0, maxMessages); file: room_<id>.json as saved,
\* messages: the messages returned to main
getAllMessages(file, newMessages, maxMessages) ==
  LET existingCache == load(file)
      allMessages == IF ~existingCache.exists THEN newMessages
                     ELSE mergeMessages(existingCache.messages, newMessages)
  IN [file |-> save(file, allMessages, <<>>),
      messages |-> IF Len(allMessages) > maxMessages
                   THEN SubSeq(allMessages, 1, maxMessages) ELSE allMessages]

\* the versatility and category policy of main(); OUTPUT_VERSATILITY is
\* 'high,medium' by default
knowledgeItemsOf(results) ==
  LET outputVersatility == {"high", "medium"}
      Wanted(item) == /\ item.versatility # "exclude"
                      /\ item.category # "excluded"
                      /\ item.versatility \in outputVersatility
  IN SelectSeq(results, Wanted)

(***************************************************************************)
(* main(): a normal-mode run, step by step                                 *)
(***************************************************************************)
Init ==
  /\ remote = {}
  /\ msgFile = NoMessageCache
  /\ analysisFile = NoAnalysisCache
  /\ speakerFile = NoSpeakerMap
  /\ run = IdleRun
  /\ an = IdleAn
  /\ hist = NoHistory

\* somebody posts a message in the room; a run reads the room once, in
\* GetAllMessages, so posts are taken between runs
PostMessage ==
  /\ run.pc \in {"idle", "done", "killed"}
  /\ \E m \in Corpus \ remote : remote' = remote \cup {m}
  /\ UNCHANGED <<msgFile, analysisFile, speakerFile, run, an, hist>>

\* a main() that takes the normal path whatever the command line says
FirstStepIgnoringReanalyze(isReanalyze) == "fetch"

\* if (isReanalyze) { re-output from the cache } else { fetch, analyze,
\* output }: where main() goes first
FirstStep(isReanalyze) == IF isReanalyze THEN "reoutput" ELSE "fetch"

\* main() starts in normal mode with the environment of this run:
\* MAX_MESSAGES is the default or a limit below the room's size,
\* EXTRACT_FROM (a cutoff on send_time) is unset or 2, and
\* config/team-profiles.json is absent, makes account 1 senior, or names
\* account 2 only
StartRun ==
  /\ run.pc \in {"idle", "done", "killed"}
  /\ run.n < MaxRuns
  /\ \E mode \in {"batch", "realtime"}, maxMessages \in {500, 2},
        cutoff \in {0, 2}, profiles \in {<<>>, <<"senior">>, [a \in {2} |-> "junior"]} :
       run' = [IdleRun EXCEPT !.pc = FirstStep(FALSE), !.n = run.n + 1, !.mode = mode,
                              !.maxMessages = maxMessages, !.cutoff = cutoff,
                              !.profiles = profiles,
                              !.startMessageIds = IdsOf(load(msgFile).messages),
                              !.startAnalyzedIds = AnalyzedIdSet(msgFile),
                              !.startResults = analysisFile,
                              !.prevFailed = run.failed]
  /\ UNCHANGED <<remote, msgFile, analysisFile, speakerFile, an, hist>>

\* main() starts with --reanalyze; EXTRACT_FROM is unset or 2
StartReoutput ==
  /\ run.pc \in {"idle", "done", "killed"}
  /\ run.n < MaxRuns
  /\ \E cutoff \in {0, 2} :
       run' = [IdleRun EXCEPT !.pc = FirstStep(TRUE), !.n = run.n + 1,
                              !.isReanalyze = TRUE, !.cutoff = cutoff,
                              !.startMessageIds = IdsOf(load(msgFile).messages),
                              !.startAnalyzedIds = AnalyzedIdSet(msgFile),
                              !.startResults = analysisFile,
                              !.prevFailed = run.failed]
  /\ UNCHANGED <<remote, msgFile, analysisFile, speakerFile, an, hist>>

\* re-output mode: cacheManager.loadAnalysisResults(roomId); main returns
\* when the cache holds no result
LoadCachedResults ==
  /\ run.pc = "reoutput"
  /\ run' = IF loadAnalysisResults(analysisFile) = <<>>
            THEN [run EXCEPT !.pc = "done"]
            ELSE [run EXCEPT !.pc = "output"]
  /\ UNCHANGED <<remote, msgFile, analysisFile, speakerFile, an, hist>>

\* chatworkClient.getAllMessages(roomId, maxMessages);
\* getMessages(roomId, force): force=1 gives the latest messages of the
\* room (all of them, the rooms of the model being shorter than the API's
\* window of 100), force=0 the messages the service holds to be new for
\* this caller, possibly none (204)
GetAllMessages ==
  /\ run.pc = "fetch"
  /\ LET existingCache == load(msgFile)
         isFirstRun == ~existingCache.exists
         getMessages(force) == IF force = 1 THEN {Ascending(remote)}
                               ELSE {Ascending(S) : S \in SUBSET remote}
     IN \E newMessages \in getMessages(IF isFirstRun THEN 1 ELSE 0) :
          LET fetchResult == getAllMessages(msgFile, newMessages, run.maxMessages)
          IN /\ msgFile' = fetchResult.file
             /\ run' = [run EXCEPT !.pc = "select", !.isFirstRun = isFirstRun,
                                   !.fetched = newMessages,
                                   !.messages = fetchResult.messages]
  /\ UNCHANGED <<remote, analysisFile, speakerFile, an, hist>>

\* getRoomInfo or getMessages throws: Chatwork API Error
FetchFails ==
  /\ run.pc = "fetch"
  /\ run' = [run EXCEPT !.pc = "caught", !.fatal = "fetch"]
  /\ UNCHANGED <<remote, msgFile, analysisFile, speakerFile, an, hist>>

\* the period filter, getAnalyzedIds, getUnanalyzedMessages, filterMessages
SelectUnanalyzed ==
  /\ run.pc = "select"
  /\ LET Recent(msg) == msg.send_time >= run.cutoff
         \* filterByExtractFrom(messages, extractFrom): send_time >= cutoffTime;
         \* cutoff 0 stands for EXTRACT_FROM not set
         messages == IF run.cutoff = 0 THEN run.messages
                     ELSE SelectSeq(run.messages, Recent)
         analyzedIds == getAnalyzedIds(msgFile)
         unanalyzedMessages == getUnanalyzedMessages(messages, analyzedIds)
     IN run' = IF messages = <<>>
               THEN [run EXCEPT !.pc = "done", !.messages = messages]
               ELSE IF unanalyzedMessages = <<>>
               THEN [run EXCEPT !.pc = "output", !.messages = messages]
               ELSE [run EXCEPT !.pc = "speakers", !.messages = messages,
                                !.unanalyzed = unanalyzedMessages,
                                !.filtered = filterMessages(unanalyzedMessages,
                                                            EnvFilterConfig)]
  /\ UNCHANGED <<remote, msgFile, analysisFile, speakerFile, an, hist>>

\* speakerMapManager.save(roomId, filteredMessages, roleResolver)
SaveSpeakers ==
  /\ run.pc = "speakers"
  /\ speakerFile' = saveSpeakerMap(speakerFile, run.filtered, run.profiles)
  /\ run' = [run EXCEPT !.pc = IF run.filtered # <<>> THEN "analyze" ELSE "output"]
  /\ UNCHANGED <<remote, msgFile, analysisFile, an, hist>>

\* analyzer.analyze(filteredMessages, roleResolver) returns or raises; the
\* results of a batch job are taken in the order of its requests
Analyze ==
  /\ run.pc = "analyze"
  /\ \E responses \in [1..Len(run.filtered) -> PipelineResponses(run.mode)] :
       LET results == [k \in 1..Len(run.filtered) |->
                         BatchResult(CustomId(run.filtered[k].message_id), responses[k])]
           outcome == IF run.mode = "realtime"
                      THEN realtimeGroups(NoBatchProgress, run.filtered, responses, 0)
                      ELSE processBatchResults(NoBatchProgress, results, run.filtered)
       IN run' = IF outcome.threw
                 THEN [run EXCEPT !.pc = "caught", !.fatal = "item",
                                  !.submitted = IdsOf(run.filtered)]
                 ELSE [run EXCEPT !.pc = "mark", !.usedModel = "model-a",
                                  !.analyzed = outcome.analyzed,
                                  !.submitted = IdsOf(run.filtered),
                                  !.failed = IdsOf(run.filtered) \ IdsOf(outcome.analyzed)]
  /\ UNCHANGED <<remote, msgFile, analysisFile, speakerFile, an, hist>>

\* batches.create throws: the bulk submission itself fails
AnalyzeSubmitFails ==
  /\ run.pc = "analyze"
  /\ run.mode = "batch"
  /\ run' = [run EXCEPT !.pc = "caught", !.fatal = "submit"]
  /\ UNCHANGED <<remote, msgFile, analysisFile, speakerFile, an, hist>>

\* batches.retrieve or batches.results throws after the submission
AnalyzePollFails ==
  /\ run.pc = "analyze"
  /\ run.mode = "batch"
  /\ run' = [run EXCEPT !.pc = "caught", !.fatal = "poll",
                        !.submitted = IdsOf(run.filtered)]
  /\ UNCHANGED <<remote, msgFile, analysisFile, speakerFile, an, hist>>

\* a main that records every unanalyzed message, skipped ones included
newlyAnalyzedIdsOfUnanalyzed(unanalyzedMessages, filteredMessages) ==
  [k \in 1..Len(unanalyzedMessages) |-> unanalyzedMessages[k].message_id]

\* const newlyAnalyzedIds = filteredMessages.map(m => m.message_id)
newlyAnalyzedIds(unanalyzedMessages, filteredMessages) ==
  [k \in 1..Len(filteredMessages) |-> filteredMessages[k].message_id]

\* cacheManager.markAsAnalyzed(roomId, newlyAnalyzedIds)
MarkAnalyzed ==
  /\ run.pc = "mark"
  /\ msgFile' = markAsAnalyzed(msgFile, newlyAnalyzedIds(run.unanalyzed, run.filtered))
  /\ run' = [run EXCEPT !.pc = "saveres"]
  /\ UNCHANGED <<remote, analysisFile, speakerFile, an, hist>>

\* cacheManager.saveAnalysisResults(roomId, analyzed, usedModel)
SaveAnalysis ==
  /\ run.pc = "saveres"
  /\ analysisFile' = saveAnalysisResults(analysisFile, run.analyzed, run.usedModel)
  /\ run' = [run EXCEPT !.pc = "output"]
  /\ UNCHANGED <<remote, msgFile, speakerFile, an, hist>>

\* in both modes the cached results are loaded, filtered and rendered; the
\* formatters throw when the speaker map cannot be loaded
Output ==
  /\ run.pc = "output"
  /\ LET RecentItem(item) == item.date >= ToISODate(run.cutoff)
         \* filterAnalysisResultsByDate(results, extractFrom)
         allResults == IF run.cutoff = 0 THEN loadAnalysisResults(analysisFile)
                       ELSE SelectSeq(loadAnalysisResults(analysisFile), RecentItem)
         knowledgeItems == knowledgeItemsOf(allResults)
     IN run' = IF knowledgeItems = <<>> THEN [run EXCEPT !.pc = "done"]
               ELSE IF format(FALSE, speakerFile).threw
               THEN [run EXCEPT !.pc = "caught", !.fatal = "render"]
               ELSE [run EXCEPT !.pc = "done", !.rendered = TRUE]
  /\ UNCHANGED <<remote, msgFile, analysisFile, speakerFile, an, hist>>

\* catch (error) { ...; process.exit(1) }
MainCatch ==
  /\ run.pc = "caught"
  /\ run' = [run EXCEPT !.pc = "done", !.exitCode = 1]
  /\ UNCHANGED <<remote, msgFile, analysisFile, speakerFile, an, hist>>

Next ==
  \/ PostMessage
  \/ StartRun
  \/ StartReoutput
  \/ LoadCachedResults
  \/ GetAllMessages
  \/ FetchFails
  \/ SelectUnanalyzed
  \/ SaveSpeakers
  \/ Analyze
  \/ AnalyzeSubmitFails
  \/ AnalyzePollFails
  \/ MarkAnalyzed
  \/ SaveAnalysis
  \/ Output
  \/ MainCatch

Spec == Init /\ [][Next]_vars

\* the process stops between two awaited steps of main (a signal, a power
\* cut): nothing more is written, the files stay as the last completed
\* step left them
Kill ==
  /\ run.pc \in {"fetch", "reoutput", "select", "speakers", "analyze", "mark",
                  "saveres", "output", "caught"}
  /\ run' = [run EXCEPT !.pc = "killed"]
  /\ UNCHANGED <<remote, msgFile, analysisFile, speakerFile, an, hist>>

\* runs of main, any of which may be stopped part-way
SpecKill == Init /\ [][Next \/ Kill]_vars

(***************************************************************************)
(* ClaudeAnalyzer.analyze, step by step                                    *)
(***************************************************************************)
TIMEOUT_MS == 30 * 60 * 1000

POLLING_INTERVAL_MS == 10000

\* processing_status of a message batch
BatchStatuses == {"in_progress", "canceling", "ended"}

\* the loop condition with a hard timeout
KeepPollingUntilTimeout(status, elapsed) ==
  status = "in_progress" /\ elapsed <= TIMEOUT_MS

\* while (batch.processing_status === 'in_progress')
KeepPolling(status, elapsed) == status = "in_progress"

\* the 1-based indexes of messages.slice(i, i + CONCURRENCY) with one
\* message too many
GroupIndexesOffByOne(i, n) == (i + 1)..Min2(i + CONCURRENCY + 1, n)

\* the 1-based indexes of messages.slice(i, i + CONCURRENCY)
GroupIndexes(i, n) == (i + 1)..Min2(i + CONCURRENCY, n)

\* analyze(messages, ...) is called with n messages
AnalyzeInit ==
  /\ remote = {}
  /\ msgFile = NoMessageCache
  /\ analysisFile = NoAnalysisCache
  /\ speakerFile = NoSpeakerMap
  /\ run = IdleRun
  /\ hist = NoHistory
  /\ \E mode \in {"batch", "realtime"} :
       \E n \in 1..(IF mode = "batch" THEN MaxBatchMsgs ELSE MaxRealtimeMsgs) :
         an = [IdleAn EXCEPT !.pc = "start", !.mode = mode,
                             !.messages =
                               [k \in 1..n |->
                                  [message_id |-> <<1, k>>, account_id |-> 1,
                                   name |-> "alice", send_time |-> k,
                                   body |-> <<"a", "a", "a", "a">>]]]

\* batches.create({ requests }) returns the job: Created
BatchSubmit ==
  /\ an.pc = "start" /\ an.mode = "batch"
  /\ an' = [an EXCEPT !.pc = "created"]
  /\ UNCHANGED <<remote, msgFile, analysisFile, speakerFile, run, hist>>

\* batches.create throws
BatchSubmitFails ==
  /\ an.pc = "start" /\ an.mode = "batch"
  /\ an' = [an EXCEPT !.pc = "raised", !.raisedBy = "submit"]
  /\ UNCHANGED <<remote, msgFile, analysisFile, speakerFile, run, hist>>

\* waitForBatchCompletion: startTime is taken, the job is retrieved once
BatchFirstRetrieve ==
  /\ an.pc = "created"
  /\ \E status \in BatchStatuses, delay \in {0, POLLING_INTERVAL_MS} :
       an' = [an EXCEPT !.pc = "polling", !.status = status, !.clock = delay]
  /\ UNCHANGED <<remote, msgFile, analysisFile, speakerFile, run, hist>>

\* one iteration of the polling loop: the warning, the sleep, the retrieve;
\* the job leaves in_progress at the latest at the MaxPolls-th poll; the
\* sleep with the retrieve takes POLLING_INTERVAL_MS or much longer; warn:
\* !timeoutWarningShown && Date.now() - startTime > TIMEOUT_MS
PollIteration ==
  /\ an.pc = "polling"
  /\ KeepPolling(an.status, an.clock)
  /\ an.pollCount < MaxPolls
  /\ \E status \in BatchStatuses,
        delay \in {POLLING_INTERVAL_MS, 200 * POLLING_INTERVAL_MS} :
       /\ an.pollCount + 1 = MaxPolls => status # "in_progress"
       /\ LET warn == ~an.timeoutWarningShown /\ an.clock > TIMEOUT_MS
          IN an' = [an EXCEPT !.pollCount = @ + 1,
                              !.warnings = IF warn THEN @ + 1 ELSE @,
                              !.warnedAt = IF warn THEN an.pollCount + 1 ELSE @,
                              !.timeoutWarningShown = IF warn THEN TRUE ELSE @,
                              !.clock = @ + delay,
                              !.status = status]
  /\ UNCHANGED <<remote, msgFile, analysisFile, speakerFile, run, hist>>

\* the loop ends, waitForBatchCompletion returns the batch and
\* batches.results(completedBatch.id) opens the stream of results, one per
\* request and possibly one with a correlation id of no request
PollExit ==
  /\ an.pc = "polling"
  /\ ~KeepPolling(an.status, an.clock)
  /\ \E stray \in SUBSET {CustomId(<<7>>)} :
       an' = [an EXCEPT !.pc = "results",
                        !.pending = {CustomId(id) : id \in IdsOf(an.messages)} \cup stray]
  /\ UNCHANGED <<remote, msgFile, analysisFile, speakerFile, run, hist>>

\* the loop ends on a status other than "ended" and batches.results finds no
\* results of the job: it rejects, and so does analyzeBatch
ResultsUnavailable ==
  /\ an.pc = "polling"
  /\ ~KeepPolling(an.status, an.clock)
  /\ an.status # "ended"
  /\ an' = [an EXCEPT !.pc = "raised", !.raisedBy = "results"]
  /\ UNCHANGED <<remote, msgFile, analysisFile, speakerFile, run, hist>>

\* one iteration of for await (const result of results); the job yields
\* its results in any order
ProcessResult ==
  /\ an.pc = "results"
  /\ \E cid \in an.pending, response \in {RespObject, RespOneOfTwoValid, RespTruncated,
                                        RespEmpty, RespErrored, RespRawWithFence,
                                        RespNoneOfTwoValid} :
       LET progress == processBatchResult(an.progress, BatchResult(cid, response),
                                          an.messages)
       IN an' = [an EXCEPT !.pending = @ \ {cid},
                           !.progress = progress,
                           !.answers = @ \cup {[id |-> cid.id, response |-> response]},
                           !.pc = IF progress.threw THEN "raised" ELSE @,
                           !.raisedBy = IF progress.threw THEN "item" ELSE @]
  /\ UNCHANGED <<remote, msgFile, analysisFile, speakerFile, run, hist>>

\* the stream is exhausted: analyzeBatch returns analyzed
BatchReturn ==
  /\ an.pc = "results"
  /\ an.pending = {}
  /\ an' = [an EXCEPT !.pc = "done", !.analyzed = an.progress.analyzed]
  /\ UNCHANGED <<remote, msgFile, analysisFile, speakerFile, run, hist>>

\* analyzeRealtime: batch.map(async ...) starts the requests of the first
\* group
RealtimeStart ==
  /\ an.pc = "start" /\ an.mode = "realtime"
  /\ an' = [an EXCEPT !.pc = "group", !.i = 0,
                      !.inflight = GroupIndexes(0, Len(an.messages)),
                      !.started = GroupIndexes(0, Len(an.messages))]
  /\ UNCHANGED <<remote, msgFile, analysisFile, speakerFile, run, hist>>

\* the request of one message of the group settles, in any order; a
\* rejected promise rejects Promise.all and analyzeRealtime raises
RequestSettles ==
  /\ an.pc = "group"
  /\ \E k \in an.inflight, response \in {RespObject, RespOneOfTwoValid, RespEmpty,
                                        RespThrow} :
       LET outcome == realtimeRequest(an.messages[k], response)
       IN an' = [an EXCEPT !.inflight = @ \ {k},
                           !.resolved = [j \in DOMAIN @ \cup {k} |->
                                           IF j = k THEN outcome ELSE @[j]],
                           !.answers = @ \cup {[id |-> an.messages[k].message_id,
                                                response |-> response]},
                           !.pc = IF outcome.threw THEN "raised" ELSE @,
                           !.raisedBy = IF outcome.threw THEN "item" ELSE @]
  /\ UNCHANGED <<remote, msgFile, analysisFile, speakerFile, run, hist>>

\* Promise.all(promises) resolves: the results of the group are collected
\* in the order of its messages, and the next group is started or
\* analyzeRealtime returns
GroupCompletes ==
  /\ an.pc = "group"
  /\ an.inflight = {}
  /\ LET n == Len(an.messages)
         members == GroupIndexes(an.i, n)
         results == [k \in 1..Cardinality(members) |-> an.resolved[an.i + k]]
         progress == collectGroup(an.progress, results)
         next == an.i + CONCURRENCY
     IN an' = IF next < n
              THEN [an EXCEPT !.progress = progress, !.i = next, !.resolved = <<>>,
                              !.inflight = GroupIndexes(next, n),
                              !.started = @ \cup GroupIndexes(next, n)]
              ELSE [an EXCEPT !.progress = progress, !.i = next, !.resolved = <<>>,
                              !.pc = "done", !.analyzed = progress.analyzed]
  /\ UNCHANGED <<remote, msgFile, analysisFile, speakerFile, run, hist>>

AnalyzeNext ==
  \/ BatchSubmit
  \/ BatchSubmitFails
  \/ BatchFirstRetrieve
  \/ PollIteration
  \/ PollExit
  \/ ResultsUnavailable
  \/ ProcessResult
  \/ BatchReturn
  \/ RealtimeStart
  \/ RequestSettles
  \/ GroupCompletes

SpecAnalyze == AnalyzeInit /\ [][AnalyzeNext]_vars

\* waitForBatchCompletion(batchId) is called for a job of one or two
\* requests
PollingInit ==
  /\ remote = {}
  /\ msgFile = NoMessageCache
  /\ analysisFile = NoAnalysisCache
  /\ speakerFile = NoSpeakerMap
  /\ run = IdleRun
  /\ hist = NoHistory
  /\ \E n \in 1..MaxBatchMsgs :
       an = [IdleAn EXCEPT !.pc = "created", !.mode = "batch",
                           !.messages =
                             [k \in 1..n |->
                                [message_id |-> <<1, k>>, account_id |-> 1,
                                 name |-> "alice", send_time |-> k,
                                 body |-> <<"a", "a", "a", "a">>]]]

PollingNext == BatchFirstRetrieve \/ PollIteration \/ PollExit \/ ResultsUnavailable

\* the event loop resumes the function whenever the timer or the request
\* it awaits has settled: a step that stays possible is taken
SpecPolling == PollingInit /\ [][PollingNext]_vars /\ WF_vars(PollingNext)

(***************************************************************************)
(* Two runs of main() on one room at the same time                         *)
(***************************************************************************)
\* the positions of a normal-mode run at which it reads or writes a file of
\* the room: getAllMessages loads the cache, save loads it again and
\* writes; the speaker map, markAsAnalyzed and saveAnalysisResults each
\* load and write
RunSteps ==
  <<"fetch", "save", "saveWrite", "speakers", "speakersWrite",
    "mark", "markWrite", "results", "resultsWrite", "done">>

\* the message run p got from getMessages, and the record analyze made
\* of it
NewMessageOf(p) == IF p = 1 THEN M8 ELSE M9

RecordOf(p) ==
  [message_id |-> NewMessageOf(p).message_id,
   date |-> ToISODate(NewMessageOf(p).send_time),
   category |-> "knowhow", versatility |-> "high", title |-> "t1"]

\* the cache is absent or holds one message, analyzed by an earlier run;
\* run[p].at: the position of run p in RunSteps; existingCache: what
\* getAllMessages loaded; loaded: what the manager method in progress
\* loaded; hist.serialized: no run has started while the other was under
\* way
ConcurrentInit ==
  /\ remote = {M8, M9, M10}
  /\ msgFile \in {NoMessageCache, save(NoMessageCache, <<M10>>, <<M10.message_id>>)}
  /\ analysisFile = NoAnalysisCache
  /\ speakerFile = NoSpeakerMap
  /\ run = [p \in {1, 2} |-> [at |-> 0, existingCache |-> NoMessageCache,
                               loaded |-> NoMessageCache]]
  /\ an = IdleAn
  /\ hist = [serialized |-> TRUE]

\* run p starts: getAllMessages loads the cache
RunStart(p) ==
  /\ run[p].at = 0
  /\ run' = [run EXCEPT ![p].at = 2, ![p].existingCache = msgFile]
  /\ hist' = [serialized |-> hist.serialized /\ run[3 - p].at \in {0, 10}]
  /\ UNCHANGED <<remote, msgFile, analysisFile, speakerFile, an>>

\* the load at the head of save, SpeakerMapManager.save, markAsAnalyzed or
\* saveAnalysisResults
RunLoad(p) ==
  /\ run[p].at \in {2, 4, 6, 8}
  /\ run' = [run EXCEPT ![p].at = @ + 1,
                        ![p].loaded = CASE RunSteps[run[p].at] = "speakers" -> speakerFile
                                        [] RunSteps[run[p].at] = "results" -> analysisFile
                                        [] OTHER -> msgFile]
  /\ UNCHANGED <<remote, msgFile, analysisFile, speakerFile, an, hist>>

\* the writeFile at the end of the same method: the whole file, computed
\* from what the method loaded
RunWrite(p) ==
  /\ run[p].at \in {3, 5, 7, 9}
  /\ LET step == RunSteps[run[p].at]
         existingCache == load(run[p].existingCache)
         allMessages == IF ~existingCache.exists THEN <<NewMessageOf(p)>>
                        ELSE mergeMessages(existingCache.messages, <<NewMessageOf(p)>>)
     IN /\ msgFile' = CASE step = "saveWrite" -> save(run[p].loaded, allMessages, <<>>)
                         [] step = "markWrite" ->
                              markAsAnalyzed(run[p].loaded, <<NewMessageOf(p).message_id>>)
                         [] OTHER -> msgFile
        /\ speakerFile' = IF step = "speakersWrite"
                          THEN saveSpeakerMap(run[p].loaded, <<NewMessageOf(p)>>, <<>>)
                          ELSE speakerFile
        /\ analysisFile' = IF step = "resultsWrite"
                           THEN saveAnalysisResults(run[p].loaded, <<RecordOf(p)>>, "model-a")
                           ELSE analysisFile
  /\ run' = [run EXCEPT ![p].at = @ + 1, ![p].loaded = NoMessageCache]
  /\ UNCHANGED <<remote, an, hist>>

ConcurrentNext == \E p \in {1, 2} : RunStart(p) \/ RunLoad(p) \/ RunWrite(p)

SpecConcurrent == ConcurrentInit /\ [][ConcurrentNext]_vars

NoReprocessing ==
  /\ IdsOf(run.unanalyzed) \cap run.startAnalyzedIds = {}
  /\ IdsOf(run.filtered) \cap run.startAnalyzedIds = {}
  /\ run.submitted \cap run.startAnalyzedIds = {}

\* a run that had an analyzed message in scope submitted other messages
NoReprocessingWitness ==
  /\ run.submitted # {}
  /\ run.startAnalyzedIds \cap IdsOf(run.messages) # {}

\* C3, as claimed: a message whose classification failed in the previous
\* run and that is in scope of this run is in this run's unanalyzed
\* subset, once the run has computed it.
RecoveryByRerun ==
  run.pc \in {"speakers", "analyze", "mark", "saveres", "output", "caught"} =>
    \A id \in run.prevFailed :
      id \in IdsOf(run.messages) => id \in IdsOf(run.unanalyzed)

\* C8: when the bulk submit call fails, the run ends with exit code 1 and
\* has changed neither the persisted analyzed ids nor the analysis cache.
FatalSubmissionFailure ==
  run.fatal = "submit" =>
    /\ run.pc \in {"caught", "done"}
    /\ run.pc = "done" => run.exitCode = 1
    /\ AnalyzedIdSet(msgFile) = run.startAnalyzedIds
    /\ analysisFile = run.startResults

\* a run on a room with analyzed messages and cached results ended on a
\* failed submission
FatalSubmissionFailureWitness ==
  /\ run.fatal = "submit"
  /\ run.pc = "done"
  /\ run.startAnalyzedIds # {}
  /\ run.startResults.exists

(***************************************************************************)
(* Properties of analyze                                                   *)
(***************************************************************************)
\* C7: Per-item failure isolation. In batch and in realtime mode the
\* failure of one item never raises out of analyze (only a failure of the
\* job as a whole does), every validated record of the other items is in the
\* returned list, and in realtime mode the siblings of a failed request
\* stay in flight until they settle.
PerItemFailureIsolation ==
  LET \* the records of one answer that pass validation: the objects of a
      \* parseable response that carry both required fields, enriched with
      \* the id and the date of the message
      ValidatedRecords(messages, answer) ==
        IF answer.id \notin IdsOf(messages) THEN {}
        ELSE IF answer.response.type # "succeeded" \/ answer.response.contentType # "text"
        THEN {}
        ELSE LET parsed == JSONparse(ExtractJsonText(answer.response.text))
                 items == IF parsed.ok THEN ItemsOf(parsed.value) ELSE <<>>
             IN IF \E k \in 1..Len(items) : items[k].isNull THEN {}
                ELSE {Enrich(items[k], answer.id, DateOfId(messages, answer.id)) :
                        k \in {j \in 1..Len(items) : ~MissingRequiredField(items[j])}}
  IN
  /\ an.pc = "raised" => an.raisedBy # "item"
  /\ an.pc = "done" =>
       \A answer \in an.answers :
         ValidatedRecords(an.messages, answer) \subseteq Range(an.analyzed)
  /\ (an.pc = "group" /\ an.mode = "realtime") =>
       GroupIndexes(an.i, Len(an.messages)) = an.inflight \cup DOMAIN an.resolved

\* C9: Realtime group barrier. At every moment the requests in flight
\* belong to one group of at most 5 consecutive messages, and every
\* request of an earlier group than a started one has settled.
RealtimeGroupBarrier ==
  LET GroupOf(k) == (k - 1) \div 5
  IN an.mode = "realtime" =>
    /\ Cardinality(an.inflight) <= 5
    /\ \A a, b \in an.inflight : GroupOf(a) = GroupOf(b) /\ a - b < 5
    /\ \A a \in an.started : \A b \in 1..Len(an.messages) :
         GroupOf(b) < GroupOf(a) => b \in an.started \ an.inflight

\* two requests of the second group are in flight after a request of the
\* first group failed
RealtimeGroupBarrierWitness ==
  /\ an.mode = "realtime" /\ an.pc = "group"
  /\ an.i = 5
  /\ Cardinality(an.inflight) >= 2
  /\ an.progress.parseErrorCount >= 1
  /\ an.progress.analyzed # <<>>

\* C10: Batch polling soft timeout. While the job is in progress the loop
\* keeps polling whatever the elapsed time; the warning is emitted by the
\* first poll after the threshold and at most once per job.
SoftTimeout ==
  /\ [](an.warnings <= 1)
  /\ [][(an.pc = "polling" /\ an.status = "in_progress" /\ an.pollCount < MaxPolls)
          => /\ an'.pc = "polling"
             /\ an'.pollCount = an.pollCount + 1
             /\ an.clock > TIMEOUT_MS => an'.warnings = 1]_vars

\* the job is still polled, in progress, two polls after the warning
SoftTimeoutWitness ==
  /\ an.pc = "polling" /\ an.status = "in_progress"
  /\ an.warnings = 1
  /\ an.clock > TIMEOUT_MS
  /\ an.pollCount >= an.warnedAt + 1

\* C11: Batch state order. A batch call goes from Created to Polling and
\* from Polling to the results; a terminal status, once observed, is the
\* last one observed; and the per-item results are fetched only after a
\* poll has observed a terminal status. The provider reports "ended" for
\* a completed, errored, expired or canceled job, and "canceling" while a
\* cancellation is still being carried out.
BatchStateOrder ==
  /\ [](an.mode = "batch" /\ an.pc \in {"results", "done"}
          => an.status = "ended")
  /\ [][/\ (an'.pc = "polling" /\ an.pc # "polling") => an.pc = "created"
        /\ (an'.pc = "results" /\ an.pc # "results") => an.pc = "polling"
        /\ an.status = "ended" => an'.status = an.status]_vars

\* C12: Correlation integrity. Every record collected or returned by
\* analyzeBatch or analyzeRealtime carries the message_id of a message
\* submitted in the call and the date of that message's send_time,
\* whatever message_id and date the response echoed.
CorrelationIntegrity ==
  \A record \in Range(an.progress.analyzed) \cup Range(an.analyzed) :
    \E k \in 1..Len(an.messages) :
      /\ record.message_id = an.messages[k].message_id
      /\ record.date = an.messages[k].send_time * 1000

\* analyze has returned records of two different messages, from answers
\* whose objects echo an id that no submitted message has
CorrelationIntegrityWitness ==
  /\ an.pc = "done"
  /\ \E r1, r2 \in Range(an.analyzed) : r1.message_id # r2.message_id
  /\ \A answer \in an.answers :
       \A k \in 1..Len(answer.response.text) :
         \A j \in 1..Len(answer.response.text[k].v.items) :
           answer.response.text[k].v.items[j].message_id \notin IdsOf(an.messages)

\* the objects of the payload of an answer; none when the answer is not a
\* parseable text
ObjectsOf(answer) ==
  IF answer.response.type # "succeeded" \/ answer.response.contentType # "text"
  THEN <<>>
  ELSE LET parsed == JSONparse(ExtractJsonText(answer.response.text))
       IN IF parsed.ok THEN ItemsOf(parsed.value) ELSE <<>>

\* the records returned for one message, in the order of the returned list
RecordsOf(id) ==
  LET OfMessage(record) == record.message_id = id
  IN SelectSeq(an.analyzed, OfMessage)

\* the warnings about skipped objects that name one message
SkipWarningsOf(id) ==
  Cardinality({k \in 1..Len(an.progress.skipped) : an.progress.skipped[k] = id})

\* C13: Required-field validation. When analyze has returned, for every
\* answer to a submitted message whose payload is an object or an array
\* of objects, the records of the message are exactly the objects with
\* both category and versatility, in their order, and there is one
\* warning for each other object; an object without a required field
\* never makes analyze raise.
RequiredFieldValidation ==
  /\ an.pc = "done" =>
       \A answer \in an.answers :
         LET objects == ObjectsOf(answer)
             HasBoth(object) == object.category # "" /\ object.versatility # ""
             valid == SelectSeq(objects, HasBoth)
             records == RecordsOf(answer.id)
         IN (answer.id \in IdsOf(an.messages)
               /\ \A k \in 1..Len(objects) : ~objects[k].isNull)
            => /\ Len(records) = Len(valid)
               /\ \A k \in 1..Len(valid) :
                    /\ records[k].category = valid[k].category
                    /\ records[k].versatility = valid[k].versatility
                    /\ records[k].title = valid[k].title
               /\ SkipWarningsOf(answer.id) = Len(objects) - Len(valid)
  /\ (an.pc = "raised" /\ an.raisedBy = "item") =>
       \E answer \in an.answers : ObjectsOf(answer) = <<>>

\* analyze has returned after an unlabeled-fenced array of two objects,
\* one without category: one record and one warning for that message
RequiredFieldValidationWitness ==
  /\ an.pc = "done"
  /\ \E answer \in an.answers :
       /\ answer.response = RespOneOfTwoValid
       /\ Len(RecordsOf(answer.id)) = 1
       /\ SkipWarningsOf(answer.id) = 1

(***************************************************************************)
(* Properties of the stores                                                *)
(***************************************************************************)
\* C4: after saveAnalysisResults(R1) followed by saveAnalysisResults(R2),
\* loadAnalysisResults returns exactly one record for every message_id that
\* occurs in R1 or R2, and for a message_id of R2 that record is R2's
\* (the last one R2 holds for the id).
ResultMergePrecedence ==
  Len(hist.saves) = 2 =>
    LET R1 == hist.saves[1]
        R2 == hist.saves[2]
        loaded == loadAnalysisResults(analysisFile)
        LastWithId(results, id) ==
          results[CHOOSE i \in 1..Len(results) :
                    /\ results[i].message_id = id
                    /\ \A j \in (i + 1)..Len(results) : results[j].message_id # id]
    IN /\ \A id \in IdsOf(R1) \cup IdsOf(R2) :
            Cardinality({i \in 1..Len(loaded) : loaded[i].message_id = id}) = 1
       /\ \A id \in IdsOf(R2) :
            \E i \in 1..Len(loaded) : loaded[i] = LastWithId(R2, id)

\* two saves that both hold a record for one message_id, with different
\* payloads, have been made
ResultMergePrecedenceWitness ==
  /\ Len(hist.saves) = 2
  /\ \E i \in 1..Len(hist.saves[1]), j \in 1..Len(hist.saves[2]) :
       /\ hist.saves[1][i].message_id = hist.saves[2][j].message_id
       /\ hist.saves[1][i].title # hist.saves[2][j].title
  /\ IdsOf(hist.saves[1]) \ IdsOf(hist.saves[2]) # {}

\* C5: a saveAnalysisResults call never removes a message_id from the
\* persisted analysis cache.
ResultStoreGrowingOnly ==
  [][ResultIds(analysisFile) \subseteq ResultIds(analysisFile')]_vars

\* a save was made on a store holding a message_id the save did not carry
ResultStoreGrowingOnlyWitness ==
  /\ Len(hist.saves) = 2
  /\ \E id \in IdsOf(hist.saves[1]) \ IdsOf(hist.saves[2]) :
       id \in ResultIds(analysisFile)

\* C6: save and markAsAnalyzed never remove an id from the persisted
\* analyzed ids.
AnalyzedIdsNeverShrink ==
  [][AnalyzedIdSet(msgFile) \subseteq AnalyzedIdSet(msgFile')]_vars

\* a save was made whose argument lacked an id already persisted
AnalyzedIdsNeverShrinkWitness ==
  /\ hist.lastOp = "save"
  /\ hist.prevAnalyzedIds \ hist.lastArgIds # {}
  /\ hist.prevAnalyzedIds \subseteq AnalyzedIdSet(msgFile)

\* C18: markAsAnalyzed on a room without a message cache is a no-op: the
\* call returns, no cache file exists afterwards and none of the given
\* ids is recorded.
MarkWithoutCacheIsNoOp ==
  [][(~msgFile.exists /\ hist'.lastOp = "markAsAnalyzed")
       => /\ msgFile' = msgFile
          /\ ~msgFile'.exists
          /\ AnalyzedIdSet(msgFile') = {}]_vars

\* markAsAnalyzed was called with ids and there is still no cache file
MarkWithoutCacheIsNoOpWitness ==
  /\ hist.lastOp = "markAsAnalyzed"
  /\ hist.lastArgIds # {}
  /\ ~msgFile.exists

\* C21: save ordering. After save the persisted messages are in descending
\* order of the numeric value of message_id, and lastMessageId is the
\* greatest id, or null when there are no messages.
SaveOrdering ==
  hist.lastOp = "save" =>
    LET msgs == msgFile.messages
        \* a >= b as decimal numerals without leading zeros
        NumericGeq(a, b) ==
          \/ Len(a) > Len(b)
          \/ /\ Len(a) = Len(b)
             /\ \/ a = b
                \/ \E i \in 1..Len(a) :
                     a[i] > b[i] /\ \A j \in 1..(i - 1) : a[j] = b[j]
    IN /\ \A i, j \in 1..Len(msgs) :
            i < j => NumericGeq(msgs[i].message_id, msgs[j].message_id)
       /\ msgFile.lastMessageId =
            IF msgs = <<>> THEN NullId
            ELSE CHOOSE id \in IdsOf(msgs) : \A other \in IdsOf(msgs) : NumericGeq(id, other)

(***************************************************************************)
(* Properties of mergeMessages and getUnanalyzedMessages                   *)
(***************************************************************************)
\* C14: Merge idempotence. For any message sequences A and B, merging B
\* once more into mergeMessages(A, B) changes nothing, and the merged
\* sequence contains no duplicate message_id.
MergeIdempotence ==
  /\ hist.lastOp = "again" => hist.merged = hist.existing
  /\ hist.lastOp \in {"merge", "again"} => NoDuplicateIds(hist.merged)

\* how often a message occurs in a list
Occurrences(msg, msgs) == Cardinality({i \in 1..Len(msgs) : msgs[i] = msg})

\* C15: Merge result. mergeMessages(existing, incoming) has the union of
\* the ids of both lists as its id set, keeps every existing message, adds
\* an incoming message only when its id is not an existing one, and is
\* ordered by send_time descending.
MergeResult ==
  hist.lastOp = "merge" =>
    /\ IdsOf(hist.merged) = IdsOf(hist.existing) \cup IdsOf(hist.incoming)
    /\ \A msg \in MergeCorpus :
         /\ Occurrences(msg, hist.merged) >= Occurrences(msg, hist.existing)
         /\ Occurrences(msg, hist.merged) > Occurrences(msg, hist.existing)
              => /\ Occurrences(msg, hist.incoming) > 0
                 /\ msg.message_id \notin IdsOf(hist.existing)
    /\ \A i, j \in 1..Len(hist.merged) :
         i < j => hist.merged[i].send_time >= hist.merged[j].send_time

\* Scenario A on the ids 10, 8 and 8, 9: three messages, one per id, of
\* which the existing M8 was kept and not replaced by the incoming one
MergeResultWitness ==
  /\ hist.lastOp = "merge"
  /\ hist.existing = <<M10, M8>>
  /\ hist.incoming = <<M8Edited, M9>>
  /\ Len(hist.merged) = 3
  /\ NoDuplicateIds(hist.merged)
  /\ Occurrences(M8, hist.merged) = 1

\* C16: Merge order-independence. For a fixed existing sequence, two
\* orderings of the same incoming messages give the same merged sequence,
\* also when several messages share a send_time.
MergeOrderIndependence ==
  hist.lastOp = "permuted" => hist.merged = hist.other

\* C17: Unanalyzed correctness. getUnanalyzedMessages returns exactly the
\* messages whose id is not in the analyzed set, in their input order.
UnanalyzedCorrectness ==
  hist.lastOp = "getUnanalyzed" =>
    LET kept == {i \in 1..Len(hist.messages) :
                   \A k \in 1..Len(hist.analyzedIds) :
                     hist.analyzedIds[k] # hist.messages[i].message_id}
        Nth(j) == CHOOSE i \in kept : Cardinality({x \in kept : x < i}) = j - 1
    IN /\ Len(hist.unanalyzed) = Cardinality(kept)
       /\ \A j \in 1..Len(hist.unanalyzed) : hist.unanalyzed[j] = hist.messages[Nth(j)]

\* a call that dropped an analyzed message from between two kept ones,
\* for an analyzed id list of two entries
UnanalyzedCorrectnessWitness ==
  /\ hist.lastOp = "getUnanalyzed"
  /\ Len(hist.messages) = 3
  /\ Len(hist.unanalyzed) = 2
  /\ hist.unanalyzed[1] = hist.messages[1]
  /\ hist.unanalyzed[2] = hist.messages[3]
  /\ Len(hist.analyzedIds) = 2

(***************************************************************************)
(* Properties of the cache files                                           *)
(***************************************************************************)
\* C19: Atomic persistence. A reader that loads the message cache while a
\* save of it is in progress gets either the complete old content or the
\* complete new content, never a partial one.
AtomicPersistence ==
  (hist.lastOp = "load" /\ hist.readKind = "messages" /\ hist.during)
    => /\ ~hist.observed.threw
       /\ \/ hist.observed.value = LoadOutcome(hist.old, NoMessageCache).value
          \/ hist.observed.value = hist.writing

\* C20: Corrupt local state is treated as absence. Each of the three
\* loads returns null for a file that cannot be read or parsed, and the
\* error does not reach the caller.
CorruptIsAbsent ==
  (hist.lastOp = "load" /\ hist.wasCorrupt)
    => /\ ~hist.observed.threw
       /\ hist.observed.value = AbsentOf(hist.readKind)

\* an analysis cache left incomplete by a crashed write was loaded while
\* the message cache of the room is intact
CorruptIsAbsentWitness ==
  /\ hist.lastOp = "load" /\ hist.wasCorrupt
  /\ hist.readKind = "analysis"
  /\ hist.writer = "idle"
  /\ analysisFile.corrupt
  /\ load(msgFile).exists

(***************************************************************************)
(* Properties of the filter stage                                          *)
(***************************************************************************)
\* C22: Boilerplate threshold. A message whose trimmed length is at or
\* above boilerplateThreshold is never skipped for the boilerplate reason,
\* and a message that passes although it matches a boilerplate pattern has
\* a trimmed length of at least the threshold.
BoilerplateThreshold ==
  hist.lastOp = "skip" =>
    LET trimmed == trim(hist.body)
    IN /\ Len(trimmed) >= hist.cfg.boilerplateThreshold
            => hist.result.reason # "boilerplate_pattern"
       /\ (~hist.result.skip /\ MatchesAny(hist.cfg.boilerplatePatterns, trimmed))
            => Len(trimmed) >= hist.cfg.boilerplateThreshold

\* a message that begins with OK and is as long as the threshold passed
BoilerplateThresholdWitness ==
  /\ hist.lastOp = "skip"
  /\ ~hist.result.skip
  /\ MatchesAny(hist.cfg.boilerplatePatterns, trim(hist.body))
  /\ Len(trim(hist.body)) = hist.cfg.boilerplateThreshold

\* C23, as claimed: Scenario B. With the default configuration the body
\* of the acknowledgement alone is skipped with reason boilerplate_pattern,
\* and the same text inside a message of 120 characters is not skipped.
ScenarioB ==
  (hist.lastOp = "skip" /\ hist.cfg = DEFAULT_FILTER_CONFIG) =>
    /\ hist.body = Ryokai
         => hist.result = [skip |-> TRUE, reason |-> "boilerplate_pattern"]
    /\ (Len(hist.body) = 120 /\ \E i \in 0..116 : SubSeq(hist.body, i + 1, i + 4) = Ryokai)
         => ~hist.result.skip

\* C23, amended: with the default patterns and threshold the body of the
\* acknowledgement alone, four characters long, is skipped with reason
\* too_short when minLength is above 4, as the default 10 is, and with
\* reason boilerplate_pattern when minLength is at most 4; the same text
\* inside a message of 120 characters is not skipped.
ScenarioBByLength ==
  (hist.lastOp = "skip" /\ hist.cfg.boilerplateThreshold = 50) =>
    /\ hist.body = Ryokai
         => hist.result = [skip |-> TRUE,
                           reason |-> IF hist.cfg.minLength > 4 THEN "too_short"
                                      ELSE "boilerplate_pattern"]
    /\ (Len(hist.body) = 120 /\ \E i \in 0..116 : SubSeq(hist.body, i + 1, i + 4) = Ryokai)
         => ~hist.result.skip

\* the acknowledgement alone has been judged under the default configuration
ScenarioBByLengthWitness ==
  /\ hist.lastOp = "skip"
  /\ hist.cfg = DEFAULT_FILTER_CONFIG
  /\ hist.body = Ryokai
  /\ hist.result = [skip |-> TRUE, reason |-> "too_short"]

\* C24: Filter monotonicity. Of two configurations that differ only in
\* minLength, a body skipped under the smaller minLength is skipped under
\* the greater one.
FilterMonotonicity ==
  hist.lastOp = "raised" => (hist.result.skip => hist.raised.skip)

\* a body skipped for the boilerplate reason is skipped as too short under
\* a greater minLength
FilterMonotonicityWitness ==
  /\ hist.lastOp = "raised"
  /\ hist.raisedTo > hist.cfg.minLength
  /\ hist.result.reason = "boilerplate_pattern"
  /\ hist.raised.reason = "too_short"

\* C25: Truncation bound. For every body and every maxLength the body
\* returned by truncateMessage is at most maxLength characters long.
TruncationBound ==
  hist.lastOp = "truncate" => Len(hist.truncation.body) <= hist.maxLength

\* C26: Filter works on copies. filterMessages changes no input message,
\* an entry of its output for a message it did not truncate is the input
\* object, and an entry for a truncated message is a new object with the
\* truncated body.
FilterWorksOnCopies ==
  hist.lastOp = "filter" =>
    LET Kept(r) == ~shouldSkipMessage(hist.objects[r].body, EnvFilterConfig).skip
        kept == SelectSeq(hist.refs, Kept)
        filtered == hist.out.filtered
    IN /\ \A r \in 1..Len(hist.objects) : hist.out.objects[r] = hist.objects[r]
       /\ Len(filtered) = Len(kept)
       /\ \A k \in 1..Len(filtered) :
            LET msg == hist.objects[kept[k]]
                t == truncateMessage(msg.body, EnvFilterConfig.maxLength)
            IN IF t.truncated
               THEN /\ filtered[k] \notin 1..Len(hist.objects)
                    /\ hist.out.objects[filtered[k]] = [msg EXCEPT !.body = t.body]
               ELSE filtered[k] = kept[k]

\* a message was truncated and another one passed unchanged
FilterWorksOnCopiesWitness ==
  /\ hist.lastOp = "filter"
  /\ \E k \in 1..Len(hist.out.filtered) : hist.out.filtered[k] > Len(hist.objects)
  /\ \E k \in 1..Len(hist.out.filtered) : hist.out.filtered[k] <= Len(hist.objects)

(***************************************************************************)
(* Properties of the speaker map and of the output                         *)
(***************************************************************************)
\* C27: Speaker role default. After SpeakerMapManager.save the role stored
\* for a message is "member" when no role resolver was supplied (the team
\* has no profiles) or when the resolver's lookup misses the account.
SpeakerRoleDefault ==
  run.pc = "analyze" =>
    \A k \in 1..Len(run.filtered) :
      LET msg == run.filtered[k]
      IN (run.profiles = <<>> \/ msg.account_id \notin DOMAIN run.profiles)
           => speakerFile.speakers[msg.message_id].speaker_role = "member"

\* C28: Absent speaker map is fatal for rendering. When speakers_<id>.json
\* is missing, or corrupt and so loaded as absent, format throws and writes
\* no output file, with names (applySpeakerNames) and without
\* (anonymizeWithMessageId).
AbsentSpeakerMapFatal ==
  (hist.lastOp = "render" /\ (~hist.mapExisted \/ hist.wasCorrupt))
    => (hist.rendered.threw /\ ~hist.rendered.written)

\* an anonymized rendering met a speaker map cut short by a crashed write
AbsentSpeakerMapFatalWitness ==
  /\ hist.lastOp = "render"
  /\ hist.anonymize
  /\ hist.mapExisted
  /\ hist.wasCorrupt
  /\ hist.rendered.threw

\* C29: Re-output mode. A run started with --reanalyze submits nothing to
\* the classification API and leaves room_<id>.json, analysis_<id>.json
\* and speakers_<id>.json as they were; it loads the cached results and
\* renders them.
ReoutputFrame ==
  [][run'.isReanalyze =>
       /\ run'.submitted = {}
       /\ msgFile' = msgFile
       /\ analysisFile' = analysisFile
       /\ speakerFile' = speakerFile]_vars

\* a run with --reanalyze rendered the results an earlier run had saved
ReoutputFrameWitness ==
  /\ run.isReanalyze
  /\ run.pc = "done"
  /\ run.rendered
  /\ loadAnalysisResults(analysisFile) # <<>>

\* C30: No validated record is dropped by persistence. After a run saved
\* its results, every record analyze returned in that run is among the
\* results loaded from analysis_<id>.json, also when one message yielded
\* several records.
NoRecordDropped ==
  run.pc = "output" =>
    \A k \in 1..Len(run.analyzed) :
      \E j \in 1..Len(loadAnalysisResults(analysisFile)) :
        loadAnalysisResults(analysisFile)[j] = run.analyzed[k]

(***************************************************************************)
(* Properties of the caches across runs                                    *)
(***************************************************************************)
\* C40: The MAX_MESSAGES limit does not truncate the corpus. getAllMessages
\* saves the whole merged list before it applies the limit: during and
\* after a run room_<id>.json holds every message it held when the run
\* started and every message the run fetched, whatever the limit.
LimitKeepsCorpus ==
  /\ run.startMessageIds \subseteq IdsOf(load(msgFile).messages)
  /\ run.pc \notin {"idle", "fetch", "reoutput"} /\ ~run.isReanalyze
       => IdsOf(run.fetched) \subseteq IdsOf(load(msgFile).messages)

\* a run with MAX_MESSAGES = 2 got two of the three cached messages
LimitKeepsCorpusWitness ==
  /\ run.pc = "select"
  /\ Len(load(msgFile).messages) = 3
  /\ Len(run.messages) = 2
  /\ ~run.isFirstRun

\* C35: analyzed_ids stays within the cache. After any sequence of
\* normal-mode runs every id in analyzedMessageIds of room_<id>.json is the
\* id of a message of the same file.
AnalyzedIdsWithinCache ==
  AnalyzedIdSet(msgFile) \subseteq IdsOf(load(msgFile).messages)

\* a second run fetched messages after the first one had marked some
AnalyzedIdsWithinCacheWitness ==
  /\ run.n = 2
  /\ run.pc = "select"
  /\ ~run.isReanalyze
  /\ AnalyzedIdSet(msgFile) # {}
  /\ run.fetched # <<>>

\* C36: Attribution coverage. After any sequence of normal-mode runs every
\* message_id with a record in analysis_<id>.json has an entry in
\* speakers_<id>.json: the speaker map is saved for the filtered messages
\* before they are submitted.
AttributionCoverage ==
  ResultIds(analysisFile) \subseteq DOMAIN loadSpeakerMap(speakerFile).speakers

\* the second run saved a record of a message the first run had not seen
AttributionCoverageWitness ==
  /\ run.n = 2
  /\ run.pc = "output"
  /\ run.analyzed # <<>>
  /\ ResultIds(analysisFile) = {M8.message_id, M10.message_id}
  /\ ResultIds(run.startResults) # {}
  /\ ResultIds(run.startResults) # ResultIds(analysisFile)

\* C37: Skipped messages are not marked. A message the filter skipped in a
\* run is not in analyzedMessageIds afterwards, and a message of the scope
\* of a run that the filter skips is among the unanalyzed messages of that
\* run, whatever the earlier runs did.
SkippedNotMarked ==
  ~run.isReanalyze =>
    /\ \A k \in 1..Len(run.unanalyzed) :
         run.unanalyzed[k].message_id \notin IdsOf(run.filtered)
           => run.unanalyzed[k].message_id \notin AnalyzedIdSet(msgFile)
    /\ run.pc \in {"speakers", "analyze", "mark", "saveres"} =>
         \A k \in 1..Len(run.messages) :
           shouldSkipMessage(run.messages[k].body, EnvFilterConfig).skip
             => run.messages[k] \in Range(run.unanalyzed)

\* a second run marked a message and skipped, once more, a message that
\* the first run had skipped
SkippedNotMarkedWitness ==
  /\ run.n = 2
  /\ run.pc = "saveres"
  /\ M9.message_id \in run.startMessageIds
  /\ run.startAnalyzedIds # {}
  /\ M9 \in Range(run.unanalyzed)
  /\ M9 \notin Range(run.filtered)
  /\ run.filtered # <<>>

\* C31: Crash consistency between marker and results. At every point of a
\* run, also when the process has stopped between two steps, a message
\* that is in analyzedMessageIds and for which analyze returned records in
\* this run has a record of this run in analysis_<id>.json.
MarkerImpliesResults ==
  \A k \in 1..Len(run.analyzed) :
    run.analyzed[k].message_id \in AnalyzedIdSet(msgFile)
      => \E j \in 1..Len(loadAnalysisResults(analysisFile)) :
           /\ loadAnalysisResults(analysisFile)[j].message_id = run.analyzed[k].message_id
           /\ loadAnalysisResults(analysisFile)[j] \in Range(run.analyzed)

(***************************************************************************)
(* Properties of two runs on one room                                      *)
(***************************************************************************)
\* C32: Same-room runs are safe only when serialized. As long as no run
\* starts while the other is under way, the message a run saved, the
\* speaker it stored, the id it marked and the record it saved are in the
\* files of the room; with the loads and writes of two runs interleaved a
\* state is reachable where one of them is missing (the witness).
SerializedRunsAreSafe ==
  hist.serialized =>
    \A p \in {1, 2} :
      /\ run[p].at > 3 => NewMessageOf(p).message_id \in IdsOf(load(msgFile).messages)
      /\ run[p].at > 5 =>
           NewMessageOf(p).message_id \in DOMAIN loadSpeakerMap(speakerFile).speakers
      /\ run[p].at > 7 => NewMessageOf(p).message_id \in AnalyzedIdSet(msgFile)
      /\ run[p].at > 9 => RecordOf(p) \in Range(loadAnalysisResults(analysisFile))

\* both runs have ended, they overlapped, and of run 1 the message, the
\* marked id or the record is gone
SerializedRunsAreSafeWitness ==
  /\ ~hist.serialized
  /\ run[1].at = 10
  /\ run[2].at = 10
  /\ \/ NewMessageOf(1).message_id \notin IdsOf(load(msgFile).messages)
     \/ NewMessageOf(1).message_id \notin AnalyzedIdSet(msgFile)
     \/ RecordOf(1) \notin Range(loadAnalysisResults(analysisFile))

(***************************************************************************)
(* Properties of the parsing of a response                                 *)
(***************************************************************************)
\* C38: Extraction priority. The text of every answer is interpreted as
\* raw JSON when it is JSON as it stands, else as the content of a labeled
\* fence, else as the content of an unlabeled fence, stray fence markers
\* being stripped before the parse: analyze parses what this order gives.
ExtractionPriority ==
  \A answer \in an.answers :
    (answer.response.type = "succeeded" /\ answer.response.contentType = "text") =>
      LET text == answer.response.text
          labeled == MatchLabeledFence(text)
          any == MatchAnyFence(text)
          rawFirst == IF JSONparse(text).ok THEN text
                      ELSE IF labeled.matched THEN labeled.capture
                      ELSE IF any.matched THEN any.capture
                      ELSE text
      IN JSONparse(ExtractJsonText(text)) = JSONparse(StripFences(rawFirst))

(***************************************************************************)
(* Properties of the polling loop                                          *)
(***************************************************************************)
\* C33: Polling termination. waitForBatchCompletion goes on polling after
\* a poll that saw the job in progress, however long it has waited, and
\* returns after a poll that saw any other status; the provider taking the
\* job out of in progress at some poll, the wait ends.
PollingTermination ==
  /\ [][an.pc = "polling" => (an'.pc = "polling" <=> an.status = "in_progress")]_vars
  /\ (an.pc = "polling") ~> (an.pc # "polling")

\* the job was still in progress at a poll after the time of the warning
PollingTerminationWitness ==
  /\ an.pc = "polling"
  /\ an.status = "in_progress"
  /\ an.clock > TIMEOUT_MS
  /\ an.pollCount >= 2

(***************************************************************************)
(* Properties of the realtime mode                                         *)
(***************************************************************************)
\* C34: Realtime results are independent of completion order. While the
\* requests of a group settle, in any order, the list of results holds
\* records of the earlier groups only; the records are in the order of the
\* input messages; and analyzeRealtime returns what handling the
\* messages one after the other gives for the same answers.
CompletionOrderIndependence ==
  an.mode = "realtime" =>
    /\ an.pc = "group" =>
         \A k \in 1..Len(an.progress.analyzed) :
           an.progress.analyzed[k].message_id[2] <= an.i
    /\ an.pc \in {"group", "done"} =>
         \A j, k \in 1..Len(an.progress.analyzed) :
           j < k => an.progress.analyzed[j].message_id[2]
                      <= an.progress.analyzed[k].message_id[2]
    /\ an.pc = "done" =>
         LET responses == [k \in 1..Len(an.messages) |->
                            (CHOOSE a \in an.answers :
                               a.id = an.messages[k].message_id).response]
         IN an.analyzed
              = realtimeGroups(NoBatchProgress, an.messages, responses, 0).analyzed

\* in the second group the request of the seventh message has settled
\* with records before the request of the sixth
CompletionOrderIndependenceWitness ==
  /\ an.mode = "realtime" /\ an.pc = "group"
  /\ an.i = 5
  /\ 6 \in an.inflight
  /\ 7 \in DOMAIN an.resolved
  /\ an.resolved[7].success
  /\ an.progress.analyzed # <<>>

\* C39: in batch mode the number of failures analyzeBatch reports never
\* exceeds the number of results it processed: a processed result is counted
\* as failed at most once
FailureAccounting ==
  an.mode = "batch" => an.progress.parseErrorCount <= an.progress.processedCount

====
